---- MODULE Spec2Model ----
(***************************************************************************)
(* Chouine rules engine (backend/main.py): card model, rule engine, the    *)
(* Game aggregate and the three operations leader_play, follower_play and  *)
(* exchange7.  Every operation is an operator from a Game record and its   *)
(* arguments to the pair (game after the call, error raised or "ok"); the  *)
(* actions apply these operators to the state.                             *)
(***************************************************************************)
EXTENDS Integers, Sequences, FiniteSets, TLC

VARIABLES game, nfree, call

vars == <<game, nfree, call>>

(***************************************************************************)
(* Bounds of the model.                                                    *)
(***************************************************************************)
\* plays of one game that may submit another card than the first of the hand
MaxFree == 1
\* largest hand handed to the rule engine when it is checked on its own
MaxHand == 3

(***************************************************************************)
(* Card model                                                              *)
(***************************************************************************)
SUITS == <<"H", "D", "C", "S">>

RANKS == <<"A", "10", "K", "Q", "J", "9", "8", "7">>

By == {"player", "opponent"}

AnnounceType == {"none", "mariage", "tierce", "quarteron", "quinte", "chouine"}

\* Python's None, for a card, a side and an announce suit
NoCard == [suit |-> "None", rank |-> "None"]

NoBy == "None"

NoSuit == "None"

Card(s, r) == [suit |-> s, rank |-> r]

SuitSet == {SUITS[i] : i \in 1..Len(SUITS)}

RankSet == {RANKS[i] : i \in 1..Len(RANKS)}

Cards == {Card(s, r) : s \in SuitSet, r \in RankSet}

\* smaller = stronger
RANK_STRENGTH(r) == (CHOOSE i \in 1..Len(RANKS) : RANKS[i] = r) - 1

CARD_POINTS(r) ==
    CASE r = "A" -> 11
      [] r = "10" -> 10
      [] r = "K" -> 4
      [] r = "Q" -> 3
      [] r = "J" -> 2
      [] OTHER -> 0

\* (non-trump, trump)
ANNOUNCE_POINTS(t) ==
    CASE t = "mariage" -> <<20, 40>>
      [] t = "tierce" -> <<30, 60>>
      [] t = "quarteron" -> <<40, 80>>
      [] t = "quinte" -> <<50, 50>>

new_deck ==
    [i \in 1..(Len(SUITS) * Len(RANKS)) |->
        Card(SUITS[((i - 1) \div Len(RANKS)) + 1], RANKS[((i - 1) % Len(RANKS)) + 1])]

Range(s) == {s[i] : i \in 1..Len(s)}

\* list comprehension [c for c in hand if c in keep]
Filter(hand, keep) == SelectSeq(hand, LAMBDA c : c \in keep)

card_eq(a, b) == a.suit = b.suit /\ a.rank = b.rank

InHand(hand, card) == \E i \in 1..Len(hand) : card_eq(hand[i], card)

\* remove_card: pops the first equal card; the caller tests InHand first
\* (the ValueError "Card not in hand" is raised when there is none)
remove_card(hand, card) ==
    LET i == CHOOSE k \in 1..Len(hand) :
                 /\ card_eq(hand[k], card)
                 /\ \A j \in 1..(k - 1) : ~card_eq(hand[j], card)
    IN SubSeq(hand, 1, i - 1) \o SubSeq(hand, i + 1, Len(hand))

(***************************************************************************)
(* Rule engine                                                             *)
(***************************************************************************)
has_suit(hand, suit) == \E i \in 1..Len(hand) : hand[i].suit = suit

trumps(hand, trump_suit) == Filter(hand, {c \in Range(hand) : c.suit = trump_suit})

overtrumps(hand, trump_suit, target_trump) ==
    Filter(hand, {c \in Range(hand) :
                     /\ c.suit = trump_suit
                     /\ RANK_STRENGTH(c.rank) < RANK_STRENGTH(target_trump.rank)})

\* trick_winner without the cut: a trump reply does not beat a non-trump lead
trick_winner_nocut(lead, reply, trump_suit, talon_is_not_empty) ==
    LET lead_is_trump == lead.suit = trump_suit
        reply_is_trump == reply.suit = trump_suit
    IN IF lead_is_trump /\ ~reply_is_trump THEN 0
       ELSE IF reply.suit = lead.suit
            THEN (IF RANK_STRENGTH(lead.rank) < RANK_STRENGTH(reply.rank) THEN 0 ELSE 1)
       ELSE 0

\* 0 if the leader wins, 1 if the follower wins
trick_winner(lead, reply, trump_suit, talon_is_not_empty) ==
    LET lead_is_trump == lead.suit = trump_suit
        reply_is_trump == reply.suit = trump_suit
    IN IF reply_is_trump /\ ~lead_is_trump THEN 1
       ELSE IF lead_is_trump /\ ~reply_is_trump THEN 0
       ELSE IF reply.suit = lead.suit
            THEN (IF RANK_STRENGTH(lead.rank) < RANK_STRENGTH(reply.rank) THEN 0 ELSE 1)
       ELSE IF talon_is_not_empty THEN 0
       ELSE 0

\* compute_legal_moves without the forced discard: nothing is legal for a hand
\* that holds neither the lead suit nor a trump
compute_legal_moves_nodiscard(hand, lead_card, trump_suit, talon_is_not_empty) ==
    IF lead_card = NoCard \/ talon_is_not_empty THEN hand
    ELSE IF has_suit(hand, lead_card.suit)
         THEN Filter(hand, {c \in Range(hand) : c.suit = lead_card.suit})
         ELSE trumps(hand, trump_suit)

\* compute_legal_moves without the duty to trump: a hand that cannot follow
\* may play any card
compute_legal_moves_notrump(hand, lead_card, trump_suit, talon_is_not_empty) ==
    IF lead_card = NoCard \/ talon_is_not_empty THEN hand
    ELSE IF has_suit(hand, lead_card.suit)
         THEN Filter(hand, {c \in Range(hand) : c.suit = lead_card.suit})
         ELSE hand

compute_legal_moves(hand, lead_card, trump_suit, talon_is_not_empty) ==
    IF lead_card = NoCard \/ talon_is_not_empty THEN hand
    ELSE LET lead_suit == lead_card.suit
             t == trumps(hand, trump_suit)
             ot == overtrumps(hand, trump_suit, lead_card)
         IN IF has_suit(hand, lead_suit)
            THEN Filter(hand, {c \in Range(hand) : c.suit = lead_suit})
            ELSE IF t # <<>>
                 THEN (IF lead_suit = trump_suit
                       THEN (IF ot # <<>> THEN ot ELSE t)
                       ELSE t)
                 ELSE hand

is_brisque(card) == card.rank \in {"A", "10"}

count_brisques(hand) == Cardinality({i \in 1..Len(hand) : is_brisque(hand[i])})

RanksOf(hand, suit) == {c.rank : c \in {x \in Range(hand) : x.suit = suit}}

has_mariage(hand, suit) == {"K", "Q"} \subseteq RanksOf(hand, suit)

has_tierce(hand, suit) == {"K", "Q", "J"} \subseteq RanksOf(hand, suit)

has_quarteron(hand, suit) == {"A", "K", "Q", "J"} \subseteq RanksOf(hand, suit)

has_chouine(hand, suit) == {"A", "10", "K", "Q", "J"} \subseteq RanksOf(hand, suit)

\* announce_points without the doubling in the trump suit
announce_points_flat(ann_type, suit, trump_suit) ==
    IF ann_type \in {"none", "chouine"} THEN 0
    ELSE ANNOUNCE_POINTS(ann_type)[1]

announce_points(ann_type, suit, trump_suit) ==
    IF ann_type \in {"none", "chouine"} THEN 0
    ELSE IF suit # NoSuit /\ suit = trump_suit THEN ANNOUNCE_POINTS(ann_type)[2]
    ELSE ANNOUNCE_POINTS(ann_type)[1]

validate_announce(hand, ann_type, ann_suit) ==
    IF ann_type = "none" THEN TRUE
    ELSE IF ann_type = "quinte" THEN count_brisques(hand) >= 5
    ELSE IF ann_suit = NoSuit THEN FALSE
    ELSE IF ann_type = "mariage" THEN has_mariage(hand, ann_suit)
    ELSE IF ann_type = "tierce" THEN has_tierce(hand, ann_suit)
    ELSE IF ann_type = "quarteron" THEN has_quarteron(hand, ann_suit)
    ELSE IF ann_type = "chouine" THEN has_chouine(hand, ann_suit)
    ELSE FALSE

is_seven_of_trump(card, trump_suit) == card.suit = trump_suit /\ card.rank = "7"

\* unique key to prevent re-announcing
announce_key(ann_type, suit) ==
    IF ann_type = "quinte" THEN "quinte"
    ELSE IF suit = NoSuit THEN ann_type \o ":?"
    ELSE ann_type \o ":" \o suit

(***************************************************************************)
(* Game aggregate                                                          *)
(***************************************************************************)
\* last_announce = None
NoAnnounce == [by |-> NoBy, type |-> "none", suit |-> NoSuit]

\* last_trick = None
NoTrick ==
    [lead |-> [by |-> NoBy, card |-> NoCard], reply |-> [by |-> NoBy, card |-> NoCard],
     winner |-> NoBy, talon_count |-> 0]

\* the Game built from a shuffled deck
new_game(deck) ==
    [trump_card |-> deck[11],
     trump_suit |-> deck[11].suit,
     talon |-> SubSeq(deck, 12, Len(deck)),
     player_hand |-> SubSeq(deck, 1, 5),
     opponent_hand |-> SubSeq(deck, 6, 10),
     leader |-> 0,
     current_lead |-> NoCard,
     current_lead_by |-> NoBy,
     turnup_in_stock |-> TRUE,
     player_tricks |-> <<>>,
     opponent_tricks |-> <<>>,
     last_trick_winner |-> NoBy,
     player_ann_points |-> 0,
     opponent_ann_points |-> 0,
     announced_player |-> {},
     announced_opponent |-> {},
     exchange7_done |-> FALSE,
     is_over |-> FALSE,
     winner |-> NoBy,
     last_trick |-> NoTrick,
     last_announce |-> NoAnnounce]

\* the errors the operations raise (the ValueError messages)
ErrGameOver == "game over"

ErrTrickStarted == "trick already started"

ErrNotLeader == "not leader"

ErrAuSept == "au sept required (talon=2 & exchange not done)"

ErrNotShown == "announce must be shown (show=true)"

ErrInvalidAnnounce == "invalid announce for your hand"

ErrAlreadyMade == "announce already made earlier"

ErrNotInHand == "Card not in hand"

ErrNoLead == "no lead"

ErrLeaderFollows == "leader cannot follow"

ErrIllegalMove == "illegal move (must follow/cut/overtrump)"

ErrExchangeDone == "exchange already done"

ErrTalonEmpty == "cannot exchange when talon empty"

ErrNoSeven == "you don't have the 7 of trump"

\* outcome of a call: the game as the call leaves it, and the error raised
Ok(g) == [g |-> g, err |-> "ok"]

Raise(g, e) == [g |-> g, err |-> e]

HandOf(g, by) == IF by = "player" THEN g.player_hand ELSE g.opponent_hand

\* talon_not_empty with >= for >: the talon always counts as non-empty
talon_not_empty_geq(g) == Len(g.talon) >= 0

talon_not_empty(g) == Len(g.talon) > 0

\* au_sept_required that fires on the last card of the talon
au_sept_required_last(g) == Len(g.talon) = 1 /\ ~g.exchange7_done

au_sept_required(g) == Len(g.talon) = 2 /\ ~g.exchange7_done

\* draw_from_stock that hands out the turnup without clearing turnup_in_stock
draw_from_stock_keepflag(g) ==
    IF g.talon # <<>>
    THEN [card |-> Head(g.talon), g |-> [g EXCEPT !.talon = Tail(@)]]
    ELSE IF g.turnup_in_stock
         THEN [card |-> g.trump_card, g |-> g]
         ELSE [card |-> NoCard, g |-> g]

\* the card drawn (NoCard for None) and the game after the draw
draw_from_stock(g) ==
    IF g.talon # <<>>
    THEN [card |-> Head(g.talon), g |-> [g EXCEPT !.talon = Tail(@)]]
    ELSE IF g.turnup_in_stock
         THEN [card |-> g.trump_card, g |-> [g EXCEPT !.turnup_in_stock = FALSE]]
         ELSE [card |-> NoCard, g |-> g]

RECURSIVE SumPoints(_)
SumPoints(cards) ==
    IF cards = <<>> THEN 0 ELSE CARD_POINTS(Head(cards).rank) + SumPoints(Tail(cards))

\* compute_cards_points that counts the first card of each trick only
RECURSIVE compute_cards_points_leads(_)
compute_cards_points_leads(tricks) ==
    IF tricks = <<>> THEN 0
    ELSE CARD_POINTS(Head(tricks)[1].rank) + compute_cards_points_leads(Tail(tricks))

RECURSIVE compute_cards_points(_)
compute_cards_points(tricks) ==
    IF tricks = <<>> THEN 0
    ELSE SumPoints(Head(tricks)) + compute_cards_points(Tail(tricks))

scores_so_far(g) ==
    [player |-> [cards |-> compute_cards_points(g.player_tricks),
                 announces |-> g.player_ann_points,
                 total |-> compute_cards_points(g.player_tricks) + g.player_ann_points],
     opponent |-> [cards |-> compute_cards_points(g.opponent_tricks),
                   announces |-> g.opponent_ann_points,
                   total |-> compute_cards_points(g.opponent_tricks) + g.opponent_ann_points],
     dix_de_der_pending |-> TRUE]

\* final_scores that gives the dix de der to both sides once a trick was won
final_scores_both(g) ==
    LET p == compute_cards_points(g.player_tricks) + g.player_ann_points
        o == compute_cards_points(g.opponent_tricks) + g.opponent_ann_points
        der == IF g.last_trick_winner \in By THEN 10 ELSE 0
    IN [player |-> [cards |-> compute_cards_points(g.player_tricks),
                    announces |-> g.player_ann_points,
                    dix_de_der |-> der,
                    total |-> p + der],
        opponent |-> [cards |-> compute_cards_points(g.opponent_tricks),
                      announces |-> g.opponent_ann_points,
                      dix_de_der |-> der,
                      total |-> o + der]]

final_scores(g) ==
    LET p == compute_cards_points(g.player_tricks) + g.player_ann_points
        o == compute_cards_points(g.opponent_tricks) + g.opponent_ann_points
    IN [player |-> [cards |-> compute_cards_points(g.player_tricks),
                    announces |-> g.player_ann_points,
                    dix_de_der |-> IF g.last_trick_winner = "player" THEN 10 ELSE 0,
                    total |-> IF g.last_trick_winner = "player" THEN p + 10 ELSE p],
        opponent |-> [cards |-> compute_cards_points(g.opponent_tricks),
                      announces |-> g.opponent_ann_points,
                      dix_de_der |-> IF g.last_trick_winner = "opponent" THEN 10 ELSE 0,
                      total |-> IF g.last_trick_winner = "opponent" THEN o + 10 ELSE o]]

\* maybe_finish_game without the draw: equal totals go to the player
maybe_finish_game_nodraw(g) ==
    IF g.is_over THEN g
    ELSE IF g.current_lead # NoCard THEN g
    ELSE IF Len(g.player_hand) # 0 \/ Len(g.opponent_hand) # 0 THEN g
    ELSE LET fs == final_scores(g)
         IN [g EXCEPT !.is_over = TRUE,
                      !.winner = IF fs.player.total >= fs.opponent.total THEN "player"
                                 ELSE "opponent"]

maybe_finish_game(g) ==
    IF g.is_over THEN g
    ELSE IF g.current_lead # NoCard THEN g
    ELSE IF Len(g.player_hand) # 0 \/ Len(g.opponent_hand) # 0 THEN g
    ELSE LET fs == final_scores(g)
         IN [g EXCEPT !.is_over = TRUE,
                      !.winner = IF fs.player.total > fs.opponent.total THEN "player"
                                 ELSE IF fs.opponent.total > fs.player.total THEN "opponent"
                                 ELSE "draw"]

\* apply_announce in which a chouine is recorded but does not end the game
apply_announce_chouine_goes_on(g, by, ann_type, ann_suit, show, hand_snapshot) ==
    IF ann_type = "none" THEN Ok(g)
    ELSE IF ~show THEN Raise(g, ErrNotShown)
    ELSE IF ~validate_announce(hand_snapshot, ann_type, ann_suit)
         THEN Raise(g, ErrInvalidAnnounce)
    ELSE LET key == announce_key(ann_type, ann_suit)
             announced_set == IF by = "player" THEN g.announced_player
                              ELSE g.announced_opponent
             pts == announce_points(ann_type, ann_suit, g.trump_suit)
         IN IF key \in announced_set THEN Raise(g, ErrAlreadyMade)
            ELSE Ok([g EXCEPT
                        !.announced_player = IF by = "player" THEN @ \cup {key} ELSE @,
                        !.announced_opponent = IF by = "player" THEN @ ELSE @ \cup {key},
                        !.last_announce = [by |-> by, type |-> ann_type, suit |-> ann_suit],
                        !.player_ann_points = IF by = "player" THEN @ + pts ELSE @,
                        !.opponent_ann_points = IF by = "player" THEN @ ELSE @ + pts])

\* apply_announce without the test of the declared set: a key can be
\* declared again
apply_announce_again(g, by, ann_type, ann_suit, show, hand_snapshot) ==
    IF ann_type = "none" THEN Ok(g)
    ELSE IF ~show THEN Raise(g, ErrNotShown)
    ELSE IF ~validate_announce(hand_snapshot, ann_type, ann_suit)
         THEN Raise(g, ErrInvalidAnnounce)
    ELSE LET key == announce_key(ann_type, ann_suit)
             g1 == [g EXCEPT !.announced_player = IF by = "player" THEN @ \cup {key} ELSE @,
                             !.announced_opponent = IF by = "player" THEN @ ELSE @ \cup {key},
                             !.last_announce = [by |-> by, type |-> ann_type, suit |-> ann_suit]]
             pts == announce_points(ann_type, ann_suit, g.trump_suit)
         IN IF ann_type = "chouine"
            THEN Ok([g1 EXCEPT !.is_over = TRUE, !.winner = by])
            ELSE Ok([g1 EXCEPT !.player_ann_points = IF by = "player" THEN @ + pts ELSE @,
                               !.opponent_ann_points = IF by = "player" THEN @ ELSE @ + pts])

apply_announce(g, by, ann_type, ann_suit, show, hand_snapshot) ==
    IF ann_type = "none" THEN Ok(g)
    ELSE IF ~show THEN Raise(g, ErrNotShown)
    ELSE IF ~validate_announce(hand_snapshot, ann_type, ann_suit)
         THEN Raise(g, ErrInvalidAnnounce)
    ELSE LET key == announce_key(ann_type, ann_suit)
             announced_set == IF by = "player" THEN g.announced_player
                              ELSE g.announced_opponent
             g1 == [g EXCEPT !.announced_player = IF by = "player" THEN @ \cup {key} ELSE @,
                             !.announced_opponent = IF by = "player" THEN @ ELSE @ \cup {key},
                             !.last_announce = [by |-> by, type |-> ann_type, suit |-> ann_suit]]
             pts == announce_points(ann_type, ann_suit, g.trump_suit)
         IN IF key \in announced_set THEN Raise(g, ErrAlreadyMade)
            ELSE IF ann_type = "chouine"
                 THEN Ok([g1 EXCEPT !.is_over = TRUE, !.winner = by])
            ELSE Ok([g1 EXCEPT !.player_ann_points = IF by = "player" THEN @ + pts ELSE @,
                               !.opponent_ann_points = IF by = "player" THEN @ ELSE @ + pts])

\* the warning of public_state: the text, "None" for None
invariant_warning(g) ==
    IF g.current_lead # NoCard /\ g.current_lead_by # NoBy
    THEN IF g.current_lead_by = "player"
         THEN IF Len(g.player_hand) # Len(g.opponent_hand) - 1
              THEN "invariant: during trick player should have one less card than opponent"
              ELSE "None"
         ELSE IF Len(g.opponent_hand) # Len(g.player_hand) - 1
              THEN "invariant: during trick opponent should have one less card than player"
              ELSE "None"
    ELSE IF Len(g.player_hand) # Len(g.opponent_hand)
         THEN "invariant: between tricks hands should be same size"
         ELSE "None"

\* resolve_trick in which the winner of the trick draws both cards
resolve_trick_winner_takes_both(g, lead_by, lead_card, follow_by, follow_card) ==
    LET rel == trick_winner(lead_card, follow_card, g.trump_suit, talon_not_empty(g))
        winner == IF rel = 0 THEN lead_by ELSE follow_by
        trick_cards == <<lead_card, follow_card>>
        g1 == [g EXCEPT !.player_tricks = IF winner = "player" THEN Append(@, trick_cards) ELSE @,
                        !.opponent_tricks = IF winner = "player" THEN @ ELSE Append(@, trick_cards),
                        !.last_trick_winner = winner,
                        !.leader = IF winner = "player" THEN 0 ELSE 1]
        d1 == draw_from_stock(g1)
        d2 == draw_from_stock(d1.g)
        drawn == (IF d1.card # NoCard THEN <<d1.card>> ELSE <<>>)
                     \o (IF d2.card # NoCard THEN <<d2.card>> ELSE <<>>)
        g2 == IF Len(g1.talon) > 0 \/ g1.turnup_in_stock
              THEN [d2.g EXCEPT !.player_hand = IF winner = "player" THEN @ \o drawn ELSE @,
                                !.opponent_hand = IF winner = "player" THEN @ ELSE @ \o drawn]
              ELSE g1
        g3 == [g2 EXCEPT !.last_trick = [lead |-> [by |-> lead_by, card |-> lead_card],
                                         reply |-> [by |-> follow_by, card |-> follow_card],
                                         winner |-> winner,
                                         talon_count |-> Len(g2.talon)],
                         !.current_lead = NoCard,
                         !.current_lead_by = NoBy]
    IN maybe_finish_game(g3)

\* resolve_trick in which the loser of the trick draws before the winner
resolve_trick_loser_first(g, lead_by, lead_card, follow_by, follow_card) ==
    LET rel == trick_winner(lead_card, follow_card, g.trump_suit, talon_not_empty(g))
        winner == IF rel = 0 THEN lead_by ELSE follow_by
        trick_cards == <<lead_card, follow_card>>
        g1 == [g EXCEPT !.player_tricks = IF winner = "player" THEN Append(@, trick_cards) ELSE @,
                        !.opponent_tricks = IF winner = "player" THEN @ ELSE Append(@, trick_cards),
                        !.last_trick_winner = winner,
                        !.leader = IF winner = "player" THEN 0 ELSE 1]
        d1 == draw_from_stock(g1)
        d2 == draw_from_stock(d1.g)
        p == IF winner = "player" THEN d2.card ELSE d1.card
        o == IF winner = "player" THEN d1.card ELSE d2.card
        g2 == IF Len(g1.talon) > 0 \/ g1.turnup_in_stock
              THEN [d2.g EXCEPT !.player_hand = IF p # NoCard THEN Append(@, p) ELSE @,
                                !.opponent_hand = IF o # NoCard THEN Append(@, o) ELSE @]
              ELSE g1
        g3 == [g2 EXCEPT !.last_trick = [lead |-> [by |-> lead_by, card |-> lead_card],
                                         reply |-> [by |-> follow_by, card |-> follow_card],
                                         winner |-> winner,
                                         talon_count |-> Len(g2.talon)],
                         !.current_lead = NoCard,
                         !.current_lead_by = NoBy]
    IN maybe_finish_game(g3)

resolve_trick(g, lead_by, lead_card, follow_by, follow_card) ==
    LET rel == trick_winner(lead_card, follow_card, g.trump_suit, talon_not_empty(g))
        winner == IF rel = 0 THEN lead_by ELSE follow_by
        trick_cards == <<lead_card, follow_card>>
        g1 == [g EXCEPT !.player_tricks = IF winner = "player" THEN Append(@, trick_cards) ELSE @,
                        !.opponent_tricks = IF winner = "player" THEN @ ELSE Append(@, trick_cards),
                        !.last_trick_winner = winner,
                        !.leader = IF winner = "player" THEN 0 ELSE 1]
        d1 == draw_from_stock(g1)
        d2 == draw_from_stock(d1.g)
        p == IF winner = "player" THEN d1.card ELSE d2.card
        o == IF winner = "player" THEN d2.card ELSE d1.card
        g2 == IF Len(g1.talon) > 0 \/ g1.turnup_in_stock
              THEN [d2.g EXCEPT !.player_hand = IF p # NoCard THEN Append(@, p) ELSE @,
                                !.opponent_hand = IF o # NoCard THEN Append(@, o) ELSE @]
              ELSE g1
        g3 == [g2 EXCEPT !.last_trick = [lead |-> [by |-> lead_by, card |-> lead_card],
                                         reply |-> [by |-> follow_by, card |-> follow_card],
                                         winner |-> winner,
                                         talon_count |-> Len(g2.talon)],
                         !.current_lead = NoCard,
                         !.current_lead_by = NoBy]
    IN maybe_finish_game(g3)

(***************************************************************************)
(* Engine operations                                                       *)
(***************************************************************************)
\* leader_play that opens the trick without taking the card out of the hand
leader_play_keeps_card(g, by, card, au_sept_flag, announce, show) ==
    IF g.is_over THEN Raise(g, ErrGameOver)
    ELSE IF g.current_lead # NoCard THEN Raise(g, ErrTrickStarted)
    ELSE IF (g.leader = 0 /\ by # "player") \/ (g.leader = 1 /\ by # "opponent")
         THEN Raise(g, ErrNotLeader)
    ELSE IF au_sept_required(g) /\ ~au_sept_flag THEN Raise(g, ErrAuSept)
    ELSE LET hand_snapshot == HandOf(g, by)
             a == apply_announce(g, by, announce.type, announce.suit, show, hand_snapshot)
         IN IF a.err # "ok" THEN a
            ELSE IF a.g.is_over THEN a
            ELSE IF ~InHand(HandOf(a.g, by), card) THEN Raise(a.g, ErrNotInHand)
            ELSE Ok([a.g EXCEPT !.current_lead = card,
                                !.current_lead_by = by])

\* leader_play without the test of the leader: either side may lead
leader_play_any_side(g, by, card, au_sept_flag, announce, show) ==
    IF g.is_over THEN Raise(g, ErrGameOver)
    ELSE IF g.current_lead # NoCard THEN Raise(g, ErrTrickStarted)
    ELSE IF au_sept_required(g) /\ ~au_sept_flag THEN Raise(g, ErrAuSept)
    ELSE LET hand_snapshot == HandOf(g, by)
             a == apply_announce(g, by, announce.type, announce.suit, show, hand_snapshot)
         IN IF a.err # "ok" THEN a
            ELSE IF a.g.is_over THEN a
            ELSE IF ~InHand(HandOf(a.g, by), card) THEN Raise(a.g, ErrNotInHand)
            ELSE Ok([a.g EXCEPT !.player_hand = IF by = "player" THEN remove_card(@, card) ELSE @,
                                !.opponent_hand = IF by = "player" THEN @ ELSE remove_card(@, card),
                                !.current_lead = card,
                                !.current_lead_by = by])

leader_play(g, by, card, au_sept_flag, announce, show) ==
    IF g.is_over THEN Raise(g, ErrGameOver)
    ELSE IF g.current_lead # NoCard THEN Raise(g, ErrTrickStarted)
    ELSE IF (g.leader = 0 /\ by # "player") \/ (g.leader = 1 /\ by # "opponent")
         THEN Raise(g, ErrNotLeader)
    ELSE IF au_sept_required(g) /\ ~au_sept_flag THEN Raise(g, ErrAuSept)
    ELSE LET hand_snapshot == HandOf(g, by)
             a == apply_announce(g, by, announce.type, announce.suit, show, hand_snapshot)
         IN IF a.err # "ok" THEN a
            ELSE IF a.g.is_over THEN a
            ELSE IF ~InHand(HandOf(a.g, by), card) THEN Raise(a.g, ErrNotInHand)
            ELSE Ok([a.g EXCEPT !.player_hand = IF by = "player" THEN remove_card(@, card) ELSE @,
                                !.opponent_hand = IF by = "player" THEN @ ELSE remove_card(@, card),
                                !.current_lead = card,
                                !.current_lead_by = by])

\* follower_play without the test of is_over: a reply is accepted after the end
follower_play_after_over(g, by, card, announce, show) ==
    IF g.current_lead = NoCard \/ g.current_lead_by = NoBy THEN Raise(g, ErrNoLead)
    ELSE IF by = g.current_lead_by THEN Raise(g, ErrLeaderFollows)
    ELSE IF /\ ~talon_not_empty(g)
            /\ ~InHand(compute_legal_moves(HandOf(g, by), g.current_lead, g.trump_suit, FALSE),
                       card)
         THEN Raise(g, ErrIllegalMove)
    ELSE LET hand_snapshot == HandOf(g, by)
             a == apply_announce(g, by, announce.type, announce.suit, show, hand_snapshot)
         IN IF a.err # "ok" THEN a
            ELSE IF a.g.is_over THEN a
            ELSE IF ~InHand(HandOf(a.g, by), card) THEN Raise(a.g, ErrNotInHand)
            ELSE LET g1 == [a.g EXCEPT
                               !.player_hand = IF by = "player" THEN remove_card(@, card) ELSE @,
                               !.opponent_hand = IF by = "player" THEN @ ELSE remove_card(@, card)]
                 IN Ok(resolve_trick(g1, g1.current_lead_by, g1.current_lead, by, card))

follower_play(g, by, card, announce, show) ==
    IF g.is_over THEN Raise(g, ErrGameOver)
    ELSE IF g.current_lead = NoCard \/ g.current_lead_by = NoBy THEN Raise(g, ErrNoLead)
    ELSE IF by = g.current_lead_by THEN Raise(g, ErrLeaderFollows)
    ELSE IF /\ ~talon_not_empty(g)
            /\ ~InHand(compute_legal_moves(HandOf(g, by), g.current_lead, g.trump_suit, FALSE),
                       card)
         THEN Raise(g, ErrIllegalMove)
    ELSE LET hand_snapshot == HandOf(g, by)
             a == apply_announce(g, by, announce.type, announce.suit, show, hand_snapshot)
         IN IF a.err # "ok" THEN a
            ELSE IF a.g.is_over THEN a
            ELSE IF ~InHand(HandOf(a.g, by), card) THEN Raise(a.g, ErrNotInHand)
            ELSE LET g1 == [a.g EXCEPT
                               !.player_hand = IF by = "player" THEN remove_card(@, card) ELSE @,
                               !.opponent_hand = IF by = "player" THEN @ ELSE remove_card(@, card)]
                 IN Ok(resolve_trick(g1, g1.current_lead_by, g1.current_lead, by, card))

\* exchange7 that swaps the seven but does not mark the exchange as done
exchange7_unmarked(g) ==
    IF g.is_over THEN Raise(g, ErrGameOver)
    ELSE IF g.exchange7_done THEN Raise(g, ErrExchangeDone)
    ELSE IF ~talon_not_empty(g) THEN Raise(g, ErrTalonEmpty)
    ELSE IF ~\E i \in 1..Len(g.player_hand) : is_seven_of_trump(g.player_hand[i], g.trump_suit)
         THEN Raise(g, ErrNoSeven)
    ELSE LET idx == CHOOSE i \in 1..Len(g.player_hand) :
                        /\ is_seven_of_trump(g.player_hand[i], g.trump_suit)
                        /\ \A j \in 1..(i - 1) :
                               ~is_seven_of_trump(g.player_hand[j], g.trump_suit)
             seven == g.player_hand[idx]
         IN Ok([g EXCEPT !.player_hand = [@ EXCEPT ![idx] = g.trump_card],
                         !.trump_card = seven])

\* exchange7 that takes the turnup into the hand and leaves it under the talon
exchange7_copy(g) ==
    IF g.is_over THEN Raise(g, ErrGameOver)
    ELSE IF g.exchange7_done THEN Raise(g, ErrExchangeDone)
    ELSE IF ~talon_not_empty(g) THEN Raise(g, ErrTalonEmpty)
    ELSE IF ~\E i \in 1..Len(g.player_hand) : is_seven_of_trump(g.player_hand[i], g.trump_suit)
         THEN Raise(g, ErrNoSeven)
    ELSE LET idx == CHOOSE i \in 1..Len(g.player_hand) :
                        /\ is_seven_of_trump(g.player_hand[i], g.trump_suit)
                        /\ \A j \in 1..(i - 1) :
                               ~is_seven_of_trump(g.player_hand[j], g.trump_suit)
         IN Ok([g EXCEPT !.player_hand = [@ EXCEPT ![idx] = g.trump_card],
                         !.exchange7_done = TRUE])

\* exchange7 that takes the seven out of the hand and puts the turnup at the
\* end of the hand
exchange7_append(g) ==
    IF g.is_over THEN Raise(g, ErrGameOver)
    ELSE IF g.exchange7_done THEN Raise(g, ErrExchangeDone)
    ELSE IF ~talon_not_empty(g) THEN Raise(g, ErrTalonEmpty)
    ELSE IF ~\E i \in 1..Len(g.player_hand) : is_seven_of_trump(g.player_hand[i], g.trump_suit)
         THEN Raise(g, ErrNoSeven)
    ELSE LET seven == Card(g.trump_suit, "7")
         IN Ok([g EXCEPT !.player_hand = Append(remove_card(@, seven), g.trump_card),
                         !.trump_card = seven,
                         !.exchange7_done = TRUE])

exchange7(g) ==
    IF g.is_over THEN Raise(g, ErrGameOver)
    ELSE IF g.exchange7_done THEN Raise(g, ErrExchangeDone)
    ELSE IF ~talon_not_empty(g) THEN Raise(g, ErrTalonEmpty)
    ELSE IF ~\E i \in 1..Len(g.player_hand) : is_seven_of_trump(g.player_hand[i], g.trump_suit)
         THEN Raise(g, ErrNoSeven)
    ELSE LET idx == CHOOSE i \in 1..Len(g.player_hand) :
                        /\ is_seven_of_trump(g.player_hand[i], g.trump_suit)
                        /\ \A j \in 1..(i - 1) :
                               ~is_seven_of_trump(g.player_hand[j], g.trump_suit)
             seven == g.player_hand[idx]
         IN Ok([g EXCEPT !.player_hand = [@ EXCEPT ![idx] = g.trump_card],
                         !.trump_card = seven,
                         !.exchange7_done = TRUE])

(***************************************************************************)
(* Opponent policy                                                         *)
(***************************************************************************)
\* tuple comparison a < b
LexLess(a, b) ==
    \E i \in 1..Len(a) : a[i] < b[i] /\ \A j \in 1..(i - 1) : a[j] = b[j]

\* min(cards, key=...): the first card of the list with the smallest key;
\* keys[i] is the key of cards[i]
MinBy(cards, keys) ==
    cards[CHOOSE i \in 1..Len(cards) :
              /\ \A j \in 1..Len(cards) : ~LexLess(keys[j], keys[i])
              /\ \A j \in 1..(i - 1) : LexLess(keys[i], keys[j])]

\* the key of the cheapest winning card
WinKey(c) == <<CARD_POINTS(c.rank), RANK_STRENGTH(c.rank)>>

dump_key(c, trump_suit) ==
    <<IF is_brisque(c) THEN 1 ELSE 0, IF c.suit = trump_suit THEN 1 ELSE 0,
      CARD_POINTS(c.rank), RANK_STRENGTH(c.rank)>>

\* the announces the hand holds, in the order they are appended, with points
PossiblesOfSuit(hand, s, trump_suit) ==
    (IF has_mariage(hand, s)
     THEN <<[type |-> "mariage", suit |-> s, pts |-> announce_points("mariage", s, trump_suit)]>>
     ELSE <<>>)
    \o (IF has_tierce(hand, s)
        THEN <<[type |-> "tierce", suit |-> s, pts |-> announce_points("tierce", s, trump_suit)]>>
        ELSE <<>>)
    \o (IF has_quarteron(hand, s)
        THEN <<[type |-> "quarteron", suit |-> s,
                pts |-> announce_points("quarteron", s, trump_suit)]>>
        ELSE <<>>)

Possibles(hand, trump_suit) ==
    PossiblesOfSuit(hand, SUITS[1], trump_suit) \o PossiblesOfSuit(hand, SUITS[2], trump_suit)
        \o PossiblesOfSuit(hand, SUITS[3], trump_suit)
        \o PossiblesOfSuit(hand, SUITS[4], trump_suit)
        \o (IF count_brisques(hand) >= 5
            THEN <<[type |-> "quinte", suit |-> NoSuit, pts |-> 50]>> ELSE <<>>)

\* ai_choose_best_announce without the sort by points: the first undeclared
\* announce in the order the announces are appended
ai_choose_best_announce_unsorted(g, hand_snapshot) ==
    LET chouines == {i \in 1..Len(SUITS) :
                        /\ has_chouine(hand_snapshot, SUITS[i])
                        /\ announce_key("chouine", SUITS[i]) \notin g.announced_opponent}
        possibles == Possibles(hand_snapshot, g.trump_suit)
        free == {i \in 1..Len(possibles) :
                    announce_key(possibles[i].type, possibles[i].suit)
                        \notin g.announced_opponent}
        best == CHOOSE i \in free : \A j \in free : i <= j
    IN IF chouines # {}
       THEN [type |-> "chouine",
             suit |-> SUITS[CHOOSE i \in chouines : \A j \in chouines : i <= j],
             show |-> TRUE]
       ELSE IF free # {}
            THEN [type |-> possibles[best].type, suit |-> possibles[best].suit, show |-> TRUE]
       ELSE [type |-> "none", suit |-> NoSuit, show |-> FALSE]

\* (type, suit, show): a chouine first, else the first undeclared announce of
\* the list sorted by points, highest first (the sort is stable)
ai_choose_best_announce(g, hand_snapshot) ==
    LET chouines == {i \in 1..Len(SUITS) :
                        /\ has_chouine(hand_snapshot, SUITS[i])
                        /\ announce_key("chouine", SUITS[i]) \notin g.announced_opponent}
        possibles == Possibles(hand_snapshot, g.trump_suit)
        free == {i \in 1..Len(possibles) :
                    announce_key(possibles[i].type, possibles[i].suit)
                        \notin g.announced_opponent}
        Before(i, j) == \/ possibles[i].pts > possibles[j].pts
                        \/ possibles[i].pts = possibles[j].pts /\ i < j
        best == CHOOSE i \in free : \A j \in free \ {i} : Before(i, j)
    IN IF chouines # {}
       THEN [type |-> "chouine",
             suit |-> SUITS[CHOOSE i \in chouines : \A j \in chouines : i <= j],
             show |-> TRUE]
       ELSE IF free # {}
            THEN [type |-> possibles[best].type, suit |-> possibles[best].suit, show |-> TRUE]
       ELSE [type |-> "none", suit |-> NoSuit, show |-> FALSE]

\* the score of a card to lead once the talon is empty, in tenths
EndgameScore(g, c) ==
    (IF c.suit = g.trump_suit THEN 20 ELSE 0) + (IF is_brisque(c) THEN 30 ELSE 0)
        + (7 - RANK_STRENGTH(c.rank))

\* the score of a card to lead while the talon holds cards, in hundredths,
\* without the random term (less than one hundredth)
TalonScore(g, c) ==
    (IF is_brisque(c) THEN 200 ELSE 0) + (IF c.suit = g.trump_suit THEN 50 ELSE 0)
        + (7 - RANK_STRENGTH(c.rank)) * 5

\* the cards the call may return: none when it raises "opponent has no
\* cards"; with the talon empty the first card of the highest score; with
\* cards in the talon any card of the highest score (random.random() breaks
\* the ties)
ai_choose_lead_card(g) ==
    LET hand == g.opponent_hand
    IN IF hand = <<>> THEN {}
       ELSE IF ~talon_not_empty(g)
            THEN {MinBy(hand, [i \in 1..Len(hand) |-> <<-EndgameScore(g, hand[i])>>])}
       ELSE {c \in Range(hand) : \A d \in Range(hand) : TalonScore(g, d) <= TalonScore(g, c)}

\* ai_choose_follow_card that chooses among all the cards of the hand
ai_choose_follow_card_any(g, lead_card) ==
    LET hand == g.opponent_hand
        winning == Filter(hand, {c \in Range(hand) :
                       trick_winner(lead_card, c, g.trump_suit, talon_not_empty(g)) = 1})
    IN IF winning # <<>>
       THEN MinBy(winning, [i \in 1..Len(winning) |-> WinKey(winning[i])])
       ELSE MinBy(hand, [i \in 1..Len(hand) |-> dump_key(hand[i], g.trump_suit)])

\* the opponent's hand is not empty (else the call raises)
ai_choose_follow_card(g, lead_card) ==
    LET hand == g.opponent_hand
        legal == compute_legal_moves(hand, lead_card, g.trump_suit, talon_not_empty(g))
        winning == Filter(legal, {c \in Range(legal) :
                       trick_winner(lead_card, c, g.trump_suit, talon_not_empty(g)) = 1})
    IN IF winning # <<>>
       THEN MinBy(winning, [i \in 1..Len(winning) |-> WinKey(winning[i])])
       ELSE MinBy(legal, [i \in 1..Len(legal) |-> dump_key(legal[i], g.trump_suit)])

(***************************************************************************)
(* Shuffles: random.shuffle leaves a permutation of new_deck.  The games   *)
(* explored start from these permutations (positions in new_deck).         *)
(***************************************************************************)
\* HA H10 HK HQ HJ | SK SQ SJ D7 C8 | S9 | CQ D8 C9 D10 S7 D9 C10 SA DA S10 H7
\* CA CK CJ S8 DJ DK H8 C7 H9 DQ
Shuffle1 ==
    <<1, 2, 3, 4, 5, 27, 28, 29, 16, 23, 30, 20, 15, 22, 10, 32, 14, 18, 25, 9, 26, 8,
      17, 19, 21, 31, 13, 11, 7, 24, 6, 12>>

\* D7 CK CQ H9 S8 | DA D10 DK DQ DJ | D8 | HJ S10 H8 HA C9 C7 HQ H10 S9 C10 CJ
\* D9 CA C8 HK H7 SK SJ S7 SQ SA
Shuffle2 ==
    <<16, 19, 20, 6, 31, 9, 10, 11, 12, 13, 15, 5, 26, 7, 1, 22, 24, 4, 2, 30, 18, 21,
      14, 17, 23, 3, 8, 27, 29, 32, 28, 25>>

\* HA H10 DA D10 CA | C7 SK SQ H8 D9 | C9 | C8 DJ H9 S7 CQ CK HJ HQ DK CJ D8
\* HK SA S10 DQ D7 S9 S8 H7 C10 SJ
Shuffle3 ==
    <<1, 2, 9, 10, 17, 24, 27, 28, 7, 14, 22, 23, 13, 6, 32, 20, 19, 5, 4, 11, 21, 15,
      3, 25, 26, 12, 16, 30, 31, 8, 18, 29>>

\* SJ HQ D8 S9 CA | DJ S8 DA H9 CQ | D10 | H7 DK HA D9 HJ C10 CJ C8 S7 SA SK
\* CK SQ S10 C7 C9 DQ D7 H10 H8 HK
Shuffle4 ==
    <<29, 4, 15, 30, 17, 13, 31, 9, 6, 20, 10, 8, 11, 1, 14, 5, 18, 21, 23, 32, 25, 27,
      19, 28, 26, 24, 22, 12, 16, 2, 7, 3>>

Shuffles == {Shuffle1, Shuffle2, Shuffle3, Shuffle4}

IsPermutation(p) == Len(p) = Len(new_deck) /\ Range(p) = 1..Len(new_deck)

Shuffled(p) == [i \in 1..Len(p) |-> new_deck[p[i]]]

(***************************************************************************)
(* Inputs of the operations                                                *)
(***************************************************************************)
\* the announce argument {"type": t, "suit": s}; no announce is type "none"
Announce(t, s) == [type |-> t, suit |-> s]

NoneAnnounce == Announce("none", NoSuit)

AllAnnounces ==
    {NoneAnnounce}
        \cup {Announce(t, s) : t \in AnnounceType \ {"none"}, s \in SuitSet \cup {NoSuit}}

OtherSide(by) == IF by = "player" THEN "opponent" ELSE "player"

\* the announces a call may submit: none, and those the side's hand holds
AnnounceInputs(g, by) ==
    {a \in AllAnnounces :
        a.type = "none" \/ validate_announce(HandOf(g, by), a.type, a.suit)}

\* the cards a call may submit: the first and the last card of the side's
\* hand, and one card it does not hold (the first card of the other hand)
CardInputs(g, by) ==
    LET own == HandOf(g, by)
        other == HandOf(g, OtherSide(by))
    IN {own[i] : i \in {k \in 1..Len(own) : k = 1 \/ k = Len(own)}}
           \cup {other[i] : i \in {k \in 1..Len(other) : k = 1}}

\* the scripted call plays the first card of the hand and announces nothing;
\* any other call is a free one
FreeCall(g, by, card, announce) ==
    \/ InHand(HandOf(g, by), card) /\ ~card_eq(card, HandOf(g, by)[1])
    \/ announce.type # "none"

\* the call record of a run of the state machine (no rule-engine call)
NoCall == [fn |-> "none"]

Init ==
    /\ \E p \in Shuffles : IsPermutation(p) /\ game = new_game(Shuffled(p))
    /\ nfree = 0
    /\ call = NoCall

LeaderPlay ==
    \E by \in By, au_sept_flag \in BOOLEAN, show \in BOOLEAN :
        \E card \in CardInputs(game, by), announce \in AnnounceInputs(game, by) :
            LET r == leader_play(game, by, card, au_sept_flag, announce, show)
                free == FreeCall(game, by, card, announce)
            IN /\ free => nfree < MaxFree
               /\ game' = r.g
               /\ nfree' = IF free /\ r.g # game THEN nfree + 1 ELSE nfree
               /\ UNCHANGED call

FollowerPlay ==
    \E by \in By, show \in BOOLEAN :
        \E card \in CardInputs(game, by), announce \in AnnounceInputs(game, by) :
            LET r == follower_play(game, by, card, announce, show)
                free == FreeCall(game, by, card, announce)
            IN /\ free => nfree < MaxFree
               /\ game' = r.g
               /\ nfree' = IF free /\ r.g # game THEN nfree + 1 ELSE nfree
               /\ UNCHANGED call

Exchange7 ==
    /\ game' = exchange7(game).g
    /\ UNCHANGED <<nfree, call>>

Next == LeaderPlay \/ FollowerPlay \/ Exchange7

Spec == Init /\ [][Next]_vars

(***************************************************************************)
(* The HTTP handlers: a request runs leader_play, follower_play or         *)
(* exchange7 for the side named in the payload, and api_lead and           *)
(* api_follow go on with the opponent's automatic reply and lead.  The     *)
(* call record holds the handler that runs, its position (pc) and the      *)
(* error of its response.                                                  *)
(***************************************************************************)
ErrNoCards == "opponent has no cards"

ErrMissingLead == "internal: missing lead"

ApiCall(fn, pc, stage, error) == [fn |-> fn, pc |-> pc, stage |-> stage, error |-> error]

\* no request is being served
ApiIdle == ApiCall("none", "idle", "none", "ok")

InitApi ==
    /\ \E p \in Shuffles : IsPermutation(p) /\ game = new_game(Shuffled(p))
    /\ nfree = 0
    /\ call = ApiIdle

\* after a trick the opponent has won, the handler leads for the opponent
OpponentLeadsNext(g) == g.leader = 1 /\ g.current_lead = NoCard /\ Len(g.opponent_hand) > 0

\* api_lead up to the call of leader_play; card NoCard is a payload without
\* a card, for which the opponent's card is chosen by the policy
ApiLead ==
    /\ call.pc = "idle"
    /\ \E by \in By, au_sept_flag \in BOOLEAN, show \in BOOLEAN :
           \E card \in CardInputs(game, by) \cup (IF by = "opponent" THEN {NoCard} ELSE {}),
              announce \in AnnounceInputs(game, by) :
               IF game.is_over
               THEN /\ call' = ApiCall("api_lead", "idle", "request", "ok")
                    /\ UNCHANGED <<game, nfree>>
               ELSE IF card = NoCard /\ ai_choose_lead_card(game) = {}
                    THEN /\ call' = ApiCall("api_lead", "idle", "request", ErrNoCards)
                         /\ UNCHANGED <<game, nfree>>
               ELSE \E c \in (IF card = NoCard THEN ai_choose_lead_card(game) ELSE {card}) :
                        LET r == leader_play(game, by, c, au_sept_flag, announce, show)
                            free == FreeCall(game, by, c, announce)
                        IN /\ free => nfree < MaxFree
                           /\ nfree' = IF free /\ r.g # game THEN nfree + 1 ELSE nfree
                           /\ game' = IF r.err # "ok" THEN maybe_finish_game(r.g) ELSE r.g
                           /\ call' = ApiCall("api_lead",
                                              IF r.err = "ok" /\ ~r.g.is_over /\ by = "player"
                                              THEN "auto_follow" ELSE "idle",
                                              "request", r.err)

\* api_lead after the player's lead: the opponent's reply
AutoFollow ==
    /\ call.pc = "auto_follow"
    /\ UNCHANGED nfree
    /\ IF game.current_lead = NoCard
       THEN /\ game' = maybe_finish_game(game)
            /\ call' = ApiCall(call.fn, "idle", "auto_follow", ErrMissingLead)
       ELSE IF game.opponent_hand = <<>>
            THEN /\ game' = maybe_finish_game(game)
                 /\ call' = ApiCall(call.fn, "idle", "auto_follow", ErrNoCards)
       ELSE LET opp_card == ai_choose_follow_card(game, game.current_lead)
                ann == ai_choose_best_announce(game, game.opponent_hand)
                r == follower_play(game, "opponent", opp_card,
                                   Announce(ann.type, ann.suit), ann.show)
            IN /\ game' = IF r.err # "ok" THEN maybe_finish_game(r.g) ELSE r.g
               /\ call' = ApiCall(call.fn,
                                  IF r.err = "ok" /\ OpponentLeadsNext(r.g)
                                  THEN "auto_lead" ELSE "idle",
                                  "auto_follow", r.err)

\* api_lead and api_follow after a trick the opponent has won: its lead
AutoLead ==
    /\ call.pc = "auto_lead"
    /\ UNCHANGED nfree
    /\ LET ann == ai_choose_best_announce(game, game.opponent_hand)
       IN \E opp_lead \in ai_choose_lead_card(game) :
              LET r == leader_play(game, "opponent", opp_lead, TRUE,
                                   Announce(ann.type, ann.suit), ann.show)
              IN /\ game' = IF r.err # "ok" THEN maybe_finish_game(r.g) ELSE r.g
                 /\ call' = ApiCall(call.fn, "idle", "auto_lead", r.err)

\* api_follow up to the call of follower_play
ApiFollow ==
    /\ call.pc = "idle"
    /\ \E by \in By, show \in BOOLEAN :
           \E card \in CardInputs(game, by), announce \in AnnounceInputs(game, by) :
               IF game.is_over
               THEN /\ call' = ApiCall("api_follow", "idle", "request", "ok")
                    /\ UNCHANGED <<game, nfree>>
               ELSE IF game.current_lead = NoCard
                    THEN /\ call' = ApiCall("api_follow", "idle", "request", ErrNoLead)
                         /\ UNCHANGED <<game, nfree>>
               ELSE LET r == follower_play(game, by, card, announce, show)
                        free == FreeCall(game, by, card, announce)
                    IN /\ free => nfree < MaxFree
                       /\ nfree' = IF free /\ r.g # game THEN nfree + 1 ELSE nfree
                       /\ game' = IF r.err # "ok" THEN maybe_finish_game(r.g) ELSE r.g
                       /\ call' = ApiCall("api_follow",
                                          IF r.err = "ok" /\ ~r.g.is_over
                                                /\ OpponentLeadsNext(r.g)
                                          THEN "auto_lead" ELSE "idle",
                                          "request", r.err)

ApiExchange7 ==
    /\ call.pc = "idle"
    /\ game' = exchange7(game).g
    /\ call' = ApiCall("api_exchange7", "idle", "request", exchange7(game).err)
    /\ UNCHANGED nfree

NextApi == ApiLead \/ AutoFollow \/ AutoLead \/ ApiFollow \/ ApiExchange7

SpecApi == InitApi /\ [][NextApi]_vars

(***************************************************************************)
(* The rule engine on its own: a call of compute_legal_moves or of         *)
(* trick_winner with arguments drawn from bounded sets.                    *)
(***************************************************************************)
\* the cards of the hands and leads handed to compute_legal_moves
RuleCards == {Card(s, r) : s \in {"H", "D", "S"}, r \in {"A", "K", "Q", "7"}}

\* a hand as the list of its cards, in deck order
HandList(cards) == SelectSeq(new_deck, LAMBDA c : c \in cards)

RuleHands == {HandList(h) : h \in {x \in SUBSET RuleCards : Cardinality(x) <= MaxHand}}

LegalMovesCalls ==
    {[fn |-> "compute_legal_moves", done |-> FALSE, hand |-> h, lead |-> l, reply |-> NoCard,
      trump_suit |-> t, flag |-> f, moves |-> <<>>, rel |-> -1] :
        h \in RuleHands, l \in RuleCards \cup {NoCard}, t \in SuitSet, f \in BOOLEAN}

TrickWinnerCalls ==
    {[fn |-> "trick_winner", done |-> FALSE, hand |-> <<>>, lead |-> l, reply |-> r,
      trump_suit |-> t, flag |-> f, moves |-> <<>>, rel |-> -1] :
        l \in Cards, r \in Cards, t \in SuitSet, f \in BOOLEAN}

InitRules ==
    /\ game = new_game(Shuffled(Shuffle1))
    /\ nfree = 0
    /\ call \in LegalMovesCalls \cup {c \in TrickWinnerCalls : c.lead # c.reply}

ComputeLegalMoves ==
    /\ call.fn = "compute_legal_moves" /\ ~call.done
    /\ call' = [call EXCEPT !.done = TRUE,
                            !.moves = compute_legal_moves(call.hand, call.lead,
                                                          call.trump_suit, call.flag)]
    /\ UNCHANGED <<game, nfree>>

TrickWinner ==
    /\ call.fn = "trick_winner" /\ ~call.done
    /\ call' = [call EXCEPT !.done = TRUE,
                            !.rel = trick_winner(call.lead, call.reply,
                                                 call.trump_suit, call.flag)]
    /\ UNCHANGED <<game, nfree>>

NextRules == ComputeLegalMoves \/ TrickWinner

SpecRules == InitRules /\ [][NextRules]_vars

(***************************************************************************)
(* Properties                                                              *)
(***************************************************************************)
Occurrences(cards, c) == Cardinality({i \in 1..Len(cards) : cards[i] = c})

RECURSIVE PileCards(_)
PileCards(tricks) == IF tricks = <<>> THEN <<>> ELSE Head(tricks) \o PileCards(Tail(tricks))

\* how many times card c is in the six zones: both hands, the talon, the
\* reserved turnup (while in stock) and both trick piles
SixZones(g, c) ==
    Occurrences(g.player_hand, c) + Occurrences(g.opponent_hand, c)
        + Occurrences(g.talon, c)
        + (IF g.turnup_in_stock /\ g.trump_card = c THEN 1 ELSE 0)
        + Occurrences(PileCards(g.player_tricks), c)
        + Occurrences(PileCards(g.opponent_tricks), c)

StockExhausted(g) == g.talon = <<>> /\ ~g.turnup_in_stock

\* C1 as stated: in every reachable state the six zones (hands, talon,
\* reserved turnup, trick piles) hold each of the 32 cards exactly once.
C1_SixZonesHoldDeck == \A c \in Cards : SixZones(game, c) = 1

\* C1 amended: the six zones hold each of the 32 cards exactly once, except
\* the lead card of a trick in progress, which is in none of them.
C1_SixZonesButLead ==
    \A c \in Cards : SixZones(game, c) = IF c = game.current_lead THEN 0 ELSE 1

\* a lead is pending after the exchange of the seven and after the turnup
\* was drawn
C1_Witness ==
    /\ game.exchange7_done
    /\ StockExhausted(game)
    /\ game.current_lead # NoCard
    /\ SixZones(game, game.current_lead) = 0

\* the cards a call is tried with: every card of both hands and the turnup
ProbeCards(g) == Range(g.player_hand) \cup Range(g.opponent_hand) \cup {g.trump_card}

\* C2: a call of leader_play, follower_play or exchange7 that raises an
\* error leaves every field of the Game as it was before the call.
C2_FailedCallChangesNothing ==
    /\ exchange7(game).err # "ok" => exchange7(game).g = game
    /\ \A by \in By, card \in ProbeCards(game), announce \in AllAnnounces, show \in BOOLEAN :
           /\ LET r == follower_play(game, by, card, announce, show)
              IN r.err # "ok" => r.g = game
           /\ \A au_sept_flag \in BOOLEAN :
                  LET r == leader_play(game, by, card, au_sept_flag, announce, show)
                  IN r.err # "ok" => r.g = game

\* the side that has to reply to the lead, when a trick is open
FollowerTurn(g, by) ==
    ~g.is_over /\ g.current_lead # NoCard /\ g.current_lead_by # NoBy /\ by # g.current_lead_by

\* the side that has to lead, when no trick is open
LeaderTurn(g, by) ==
    ~g.is_over /\ g.current_lead = NoCard /\ by = (IF g.leader = 0 THEN "player" ELSE "opponent")

TricksDone(g) == Len(g.player_tricks) + Len(g.opponent_tricks)

\* the follower's cards are rejected as illegal exactly when the stock is
\* exhausted and the card is not a legal move; before that all are accepted
C3_Gate ==
    \A by \in By :
        FollowerTurn(game, by) =>
            \A card \in Range(HandOf(game, by)) :
                LET r == follower_play(game, by, card, NoneAnnounce, FALSE)
                    legal == compute_legal_moves(HandOf(game, by), game.current_lead,
                                                 game.trump_suit, FALSE)
                IN /\ r.err = ErrIllegalMove
                        <=> (StockExhausted(game) /\ card \notin Range(legal))
                   /\ ~StockExhausted(game) => r.err = "ok"

\* a trick resolved with the stock exhausted has a legal reply
C3_Resolved ==
    (TricksDone(game') > TricksDone(game) /\ StockExhausted(game))
        => LET reply == game'.last_trick.reply
           IN reply.card \in Range(compute_legal_moves(HandOf(game, reply.by), game.current_lead,
                                                       game.trump_suit, FALSE))

\* C3: with a trick open, follower_play rejects a card of the follower's hand
\* as illegal iff the stock is exhausted and the card is not in the legal-move
\* set; while the stock holds a card every card of the hand is accepted; every
\* trick resolved after the stock is exhausted has a legal reply.
C3_FollowObligation == []C3_Gate /\ [][C3_Resolved]_vars

\* with the stock exhausted, the follower holds a card that is rejected as
\* illegal and a trick was resolved on a restricted choice before
C3_Witness ==
    /\ StockExhausted(game)
    /\ TricksDone(game) >= 12
    /\ \E by \in By :
           /\ FollowerTurn(game, by)
           /\ \E card \in Range(HandOf(game, by)) :
                  follower_play(game, by, card, NoneAnnounce, FALSE).err = ErrIllegalMove
           /\ \E card \in Range(HandOf(game, by)) :
                  follower_play(game, by, card, NoneAnnounce, FALSE).err = "ok"

\* C7: a side whose turn it is and whose hand holds A,10,K,Q,J of a suit
\* plays a card of its hand with a shown chouine announce of that suit: the
\* call succeeds, the game is over, the side is the winner and both hands are
\* as before the call.
C7_ChouineWins ==
    \A by \in By, s \in SuitSet :
        has_chouine(HandOf(game, by), s) =>
            \A card \in Range(HandOf(game, by)), au_sept_flag \in BOOLEAN :
                LET r == IF LeaderTurn(game, by)
                         THEN leader_play(game, by, card, au_sept_flag,
                                          Announce("chouine", s), TRUE)
                         ELSE follower_play(game, by, card, Announce("chouine", s), TRUE)
                IN (LeaderTurn(game, by) \/ FollowerTurn(game, by))
                       => /\ r.err = "ok"
                          /\ r.g.is_over
                          /\ r.g.winner = by
                          /\ r.g.player_hand = game.player_hand
                          /\ r.g.opponent_hand = game.opponent_hand
                          /\ r.g.current_lead = game.current_lead

\* the follower has won by chouine while the lead card was on the table
C7_Witness ==
    /\ game.is_over
    /\ game.last_announce.type = "chouine"
    /\ game.winner = game.last_announce.by
    /\ game.current_lead # NoCard
    /\ game.current_lead_by # game.winner
    /\ Len(HandOf(game, game.winner)) = 5

AnnouncedOf(g, by) == IF by = "player" THEN g.announced_player ELSE g.announced_opponent

AnnPointsOf(g, by) == IF by = "player" THEN g.player_ann_points ELSE g.opponent_ann_points

\* one announce for every key that can be declared
KeyAnnounces ==
    {Announce(t, s) : t \in {"mariage", "tierce", "quarteron", "chouine"}, s \in SuitSet}
        \cup {Announce("quinte", NoSuit)}

RECURSIVE SumAnnounces(_, _)
SumAnnounces(anns, trump_suit) ==
    IF anns = {} THEN 0
    ELSE LET a == CHOOSE x \in anns : TRUE
         IN announce_points(a.type, a.suit, trump_suit) + SumAnnounces(anns \ {a}, trump_suit)

\* the announce points of a side are the points of its declared keys, once each
CreditedOnce(g) ==
    \A by \in By :
        AnnPointsOf(g, by) =
            SumAnnounces({a \in KeyAnnounces : announce_key(a.type, a.suit) \in AnnouncedOf(g, by)},
                         g.trump_suit)

\* the calls by which a side at its turn submits a card of its hand with a
\* shown announce
TurnCall(g, by, card, announce, show) ==
    IF LeaderTurn(g, by) THEN leader_play(g, by, card, TRUE, announce, show)
    ELSE follower_play(g, by, card, announce, show)

\* C8 as stated: once a side has declared a key, each later attempt of the
\* side to declare it fails with the announce-already-made error, and the
\* points of a key are credited at most once.
C8_RedeclareAlreadyMade ==
    /\ CreditedOnce(game)
    /\ \A by \in By, a \in AllAnnounces :
           (/\ a.type # "none"
            /\ announce_key(a.type, a.suit) \in AnnouncedOf(game, by)
            /\ (LeaderTurn(game, by) \/ FollowerTurn(game, by)))
               => \A card \in Range(compute_legal_moves(HandOf(game, by), game.current_lead,
                                        game.trump_suit, ~StockExhausted(game))) :
                      TurnCall(game, by, card, a, TRUE).err = ErrAlreadyMade

\* C8 amended: once a side has declared a key, each later attempt of the side
\* to declare it fails and credits nothing; the error is announce-already-made
\* when the announce is shown and the hand still holds the combination, and
\* the invalid-announce error when it is shown and the hand no longer holds
\* it; the points of a key are credited at most once.
C8_RedeclareFails ==
    /\ CreditedOnce(game)
    /\ \A by \in By, a \in AllAnnounces :
           (a.type # "none" /\ announce_key(a.type, a.suit) \in AnnouncedOf(game, by))
               => /\ \A card \in ProbeCards(game), show \in BOOLEAN, au_sept_flag \in BOOLEAN :
                         /\ LET r == leader_play(game, by, card, au_sept_flag, a, show)
                            IN r.err # "ok" /\ r.g = game
                         /\ LET r == follower_play(game, by, card, a, show)
                            IN r.err # "ok" /\ r.g = game
                  /\ (LeaderTurn(game, by) \/ FollowerTurn(game, by))
                         => \A card \in Range(compute_legal_moves(HandOf(game, by),
                                                  game.current_lead, game.trump_suit,
                                                  ~StockExhausted(game))) :
                                TurnCall(game, by, card, a, TRUE).err =
                                    IF validate_announce(HandOf(game, by), a.type, a.suit)
                                    THEN ErrAlreadyMade ELSE ErrInvalidAnnounce

\* a side at its turn has declared a key, was credited for it and holds the
\* combination no more
C8_Witness ==
    \E by \in By, a \in KeyAnnounces :
        /\ announce_key(a.type, a.suit) \in AnnouncedOf(game, by)
        /\ AnnPointsOf(game, by) > 0
        /\ LeaderTurn(game, by) \/ FollowerTurn(game, by)
        /\ ~validate_announce(HandOf(game, by), a.type, a.suit)
        /\ TurnCall(game, by, HandOf(game, by)[1], a, TRUE).err = ErrInvalidAnnounce

HoldsTrumpSeven(g) ==
    \E i \in 1..Len(g.player_hand) : g.player_hand[i] = Card(g.trump_suit, "7")

\* exchange7 succeeds only in a game that is not over, with a card in the
\* stock, the trump seven in the player's hand and no exchange made before
C9_Success ==
    LET r == exchange7(game)
    IN /\ r.err = "ok" => /\ ~game.is_over
                          /\ ~StockExhausted(game)
                          /\ HoldsTrumpSeven(game)
                          /\ ~game.exchange7_done
       /\ game.exchange7_done => r.err # "ok" /\ r.g = game

\* the turnup card is replaced only by the one successful exchange
C9_Once ==
    /\ game.exchange7_done => game'.exchange7_done /\ game'.trump_card = game.trump_card
    /\ game'.trump_card # game.trump_card => ~game.exchange7_done /\ game'.exchange7_done

\* C9: exchange7 succeeds at most once in a game, and only while the game is
\* not over, the stock is not exhausted and the player holds the trump seven;
\* every later call fails.
C9_ExchangeOnce == []C9_Success /\ [][C9_Once]_vars

\* after the exchange the player has drawn the trump seven back as the last
\* card of the stock
C9_Witness ==
    /\ game.exchange7_done
    /\ ~game.is_over
    /\ HoldsTrumpSeven(game)
    /\ exchange7(game).err # "ok"

\* the running total of a side is its card points plus its announce points
RunningIsCardsPlusAnnounces(g) ==
    /\ scores_so_far(g).player.total = SumPoints(PileCards(g.player_tricks)) + g.player_ann_points
    /\ scores_so_far(g).opponent.total
           = SumPoints(PileCards(g.opponent_tricks)) + g.opponent_ann_points

\* what the final score adds to the running score of a side
Bonus(g, by) ==
    IF by = "player" THEN final_scores(g).player.total - scores_so_far(g).player.total
    ELSE final_scores(g).opponent.total - scores_so_far(g).opponent.total

\* C10 as stated: the running score is card points plus announce points; the
\* final score adds 10 to exactly one side, the winner of the most recently
\* completed trick, and 0 to the other.
C10_BonusToOneSide ==
    /\ RunningIsCardsPlusAnnounces(game)
    /\ game.is_over =>
           \E by \in By : /\ game.last_trick.winner = by
                          /\ Bonus(game, by) = 10
                          /\ Bonus(game, OtherSide(by)) = 0

\* C10 amended: the running score is card points plus announce points; the
\* final score adds 10 to the winner of the most recently completed trick and
\* 0 to the other side, and 0 to both sides when the game ended (by chouine)
\* before any trick was completed.
C10_BonusToLastTrickWinner ==
    /\ RunningIsCardsPlusAnnounces(game)
    /\ game.is_over =>
           \A by \in By :
               Bonus(game, by) = IF game.last_trick.winner = by THEN 10 ELSE 0

\* a game played to the last card in which the player was credited an
\* announce and takes the dix de der
C10_Witness ==
    /\ game.is_over
    /\ game.player_hand = <<>> /\ game.opponent_hand = <<>>
    /\ game.player_ann_points > 0
    /\ Bonus(game, "player") = 10
    /\ Bonus(game, "opponent") = 0

\* the trumps of the hand that are strictly stronger than the lead
StrongerTrumps(hand, lead, trump_suit) ==
    {c \in Range(hand) :
        c.suit = trump_suit /\ RANK_STRENGTH(c.rank) < RANK_STRENGTH(lead.rank)}

\* C4: with the stock exhausted and a trump lead, a hand that holds a trump
\* strictly stronger than the lead may play exactly its stronger trumps.
C4_ForcedOvertrump ==
    (/\ call.fn = "compute_legal_moves" /\ call.done
     /\ ~call.flag
     /\ call.lead # NoCard /\ call.lead.suit = call.trump_suit
     /\ StrongerTrumps(call.hand, call.lead, call.trump_suit) # {})
        => Range(call.moves) = StrongerTrumps(call.hand, call.lead, call.trump_suit)

\* C5: for a non-empty hand compute_legal_moves returns a non-empty list of
\* cards of the hand, whatever the lead, the trump suit and the stock flag.
C5_LegalMovesNonEmpty ==
    (call.fn = "compute_legal_moves" /\ call.done /\ call.hand # <<>>)
        => /\ call.moves # <<>>
           /\ Range(call.moves) \subseteq Range(call.hand)

\* a forced discard: the hand holds neither the lead suit nor a trump
C5_Witness ==
    /\ call.fn = "compute_legal_moves" /\ call.done
    /\ ~call.flag /\ call.lead # NoCard
    /\ Len(call.hand) = MaxHand
    /\ ~has_suit(call.hand, call.lead.suit)
    /\ ~has_suit(call.hand, call.trump_suit)
    /\ call.moves = call.hand

\* C6: a reply of the lead's suit wins iff it is stronger; a trump reply
\* beats a non-trump lead; a non-trump reply never beats a trump lead; a
\* reply of another non-trump suit never beats a non-trump lead.
C6_TrickWinner ==
    (call.fn = "trick_winner" /\ call.done)
        => LET lead == call.lead
               reply == call.reply
               t == call.trump_suit
           IN /\ (reply.suit = lead.suit
                    /\ RANK_STRENGTH(reply.rank) < RANK_STRENGTH(lead.rank)) => call.rel = 1
              /\ (reply.suit = lead.suit
                    /\ RANK_STRENGTH(reply.rank) > RANK_STRENGTH(lead.rank)) => call.rel = 0
              /\ (reply.suit = t /\ lead.suit # t) => call.rel = 1
              /\ (lead.suit = t /\ reply.suit # t) => call.rel = 0
              /\ (reply.suit # lead.suit /\ reply.suit # t /\ lead.suit # t) => call.rel = 0

\* the trump seven cuts an ace
C6_Witness ==
    /\ call.fn = "trick_winner" /\ call.done
    /\ call.lead.rank = "A" /\ call.lead.suit # call.trump_suit
    /\ call.reply = Card(call.trump_suit, "7")
    /\ call.rel = 1

TricksOf(g, by) == IF by = "player" THEN g.player_tricks ELSE g.opponent_tricks

\* the final total of a side: card points, announce points and the dix de
\* der of the side that took the last trick
FinalTotal(g, by) ==
    SumPoints(PileCards(TricksOf(g, by))) + AnnPointsOf(g, by)
        + (IF g.last_trick.winner = by THEN 10 ELSE 0)

\* both hands are empty and no trick is in progress
HandsPlayedOut(g) ==
    g.player_hand = <<>> /\ g.opponent_hand = <<>> /\ g.current_lead = NoCard

OverByChouine(g) == g.is_over /\ g.last_announce.type = "chouine"

\* a game whose hands are played out is over; a game over without a chouine
\* has its hands played out and its winner decided by the final totals
C11_Over ==
    /\ HandsPlayedOut(game) => game.is_over
    /\ (game.is_over /\ ~OverByChouine(game))
           => /\ HandsPlayedOut(game)
              /\ game.winner =
                     IF FinalTotal(game, "player") > FinalTotal(game, "opponent") THEN "player"
                     ELSE IF FinalTotal(game, "opponent") > FinalTotal(game, "player")
                          THEN "opponent"
                     ELSE "draw"

\* the game becomes over without a chouine in the step that resolves a trick
C11_Finish ==
    (~game.is_over /\ game'.is_over /\ ~OverByChouine(game'))
        => /\ TricksDone(game') = TricksDone(game) + 1
           /\ game.current_lead # NoCard
           /\ HandsPlayedOut(game')

\* C11: absent a chouine announce, the game becomes over exactly at the trick
\* resolution after which both hands are empty and no trick is in progress,
\* never earlier; the winner is then the side with the strictly greater final
\* total (card points + announce points + last-trick bonus), and draw when the
\* final totals are equal.
C11_OverAtLastTrick == []C11_Over /\ [][C11_Finish]_vars

\* a game played to the last card that ends in a draw
C11_Witness ==
    /\ game.is_over /\ ~OverByChouine(game)
    /\ TricksDone(game) = 16
    /\ FinalTotal(game, "player") = FinalTotal(game, "opponent")
    /\ game.winner = "draw"

\* the side the leader flag designates
LeaderSide(g) == IF g.leader = 0 THEN "player" ELSE "opponent"

\* leader_play is refused while a trick is open and to the side that is not
\* the leader; follower_play is refused while no trick is open and to the side
\* that led
C12_Refused ==
    \A by \in By :
        /\ (game.current_lead # NoCard \/ by # LeaderSide(game))
               => \A card \in ProbeCards(game), announce \in AnnounceInputs(game, by) :
                      \A show \in BOOLEAN, au_sept_flag \in BOOLEAN :
                          leader_play(game, by, card, au_sept_flag, announce, show).err # "ok"
        /\ (game.current_lead = NoCard \/ by = game.current_lead_by)
               => \A card \in ProbeCards(game), announce \in AnnounceInputs(game, by) :
                      \A show \in BOOLEAN :
                          follower_play(game, by, card, announce, show).err # "ok"

\* a trick is opened by the player at first and by the winner of the last
\* trick afterwards; the lead and the reply of a resolved trick are played by
\* different sides
C12_Alternate ==
    /\ (game.current_lead = NoCard /\ game'.current_lead # NoCard)
           => game'.current_lead_by =
                  IF TricksDone(game) = 0 THEN "player" ELSE game.last_trick.winner
    /\ TricksDone(game') > TricksDone(game)
           => /\ game'.last_trick.lead.by = game.current_lead_by
              /\ game'.last_trick.reply.by = OtherSide(game.current_lead_by)

\* C12: leader_play fails when a trick is in progress or when by is not the
\* current leader, follower_play fails when no trick is open or when by is the
\* side that led; in every completed trick the lead and the reply are played
\* by different sides, the first lead of the game is by the player and every
\* later lead is by the winner of the previous trick.
C12_TurnOrder == []C12_Refused /\ [][C12_Alternate]_vars

\* the opponent won a trick as the follower and has led the next one; the
\* player cannot lead now and the opponent cannot reply to its own lead
C12_Witness ==
    /\ game.last_trick.reply.by = "opponent" /\ game.last_trick.winner = "opponent"
    /\ game.current_lead # NoCard /\ game.current_lead_by = "opponent"
    /\ ~game.is_over
    /\ leader_play(game, "player", game.player_hand[1], TRUE, NoneAnnounce, FALSE).err
           = ErrTrickStarted
    /\ follower_play(game, "opponent", game.opponent_hand[1], NoneAnnounce, FALSE).err
           = ErrLeaderFollows

\* in a game that is over every call fails with the game-over error and
\* leaves the game as it is
C13_Refused ==
    game.is_over =>
        /\ exchange7(game) = Raise(game, ErrGameOver)
        /\ \A by \in By, card \in ProbeCards(game), show \in BOOLEAN :
               \A announce \in AnnounceInputs(game, by) :
                   /\ follower_play(game, by, card, announce, show) = Raise(game, ErrGameOver)
                   /\ \A au_sept_flag \in BOOLEAN :
                          leader_play(game, by, card, au_sept_flag, announce, show)
                              = Raise(game, ErrGameOver)

\* no step changes the outcome, the hands, the piles or the totals of a game
\* that is over
C13_Frozen ==
    game.is_over =>
        /\ game'.is_over
        /\ game'.winner = game.winner
        /\ game'.player_hand = game.player_hand
        /\ game'.opponent_hand = game.opponent_hand
        /\ game'.player_tricks = game.player_tricks
        /\ game'.opponent_tricks = game.opponent_tricks
        /\ final_scores(game').player.total = final_scores(game).player.total
        /\ final_scores(game').opponent.total = final_scores(game).opponent.total

\* C13: once is_over is true (by hand exhaustion or by chouine), every later
\* leader_play, follower_play and exchange7 call fails with the game-over
\* error, and is_over, winner, both hands, both trick piles and both score
\* totals never change again.
C13_OverIsAbsorbing == []C13_Refused /\ [][C13_Frozen]_vars

\* the game ended by the follower's chouine while cards are in both hands, a
\* lead is on the table and the stock still holds cards
C13_Witness ==
    /\ OverByChouine(game)
    /\ game.current_lead # NoCard
    /\ game.player_hand # <<>> /\ game.opponent_hand # <<>>
    /\ ~StockExhausted(game)
    /\ \E by \in By :
           /\ by # game.current_lead_by
           /\ follower_play(game, by, HandOf(game, by)[1], NoneAnnounce, FALSE).err = ErrGameOver

\* the first and the last card of a list
FirstAndLast(cards) == {cards[i] : i \in {k \in 1..Len(cards) : k = 1 \/ k = Len(cards)}}

\* the hand holds the cards of the given ranks in the suit
HoldsRanks(hand, suit, ranks) == \A r \in ranks : Card(suit, r) \in Range(hand)

\* the combination an announce stands for is in the hand
HoldsCombination(hand, a) ==
    CASE a.type = "mariage" -> HoldsRanks(hand, a.suit, {"K", "Q"})
      [] a.type = "tierce" -> HoldsRanks(hand, a.suit, {"K", "Q", "J"})
      [] a.type = "quarteron" -> HoldsRanks(hand, a.suit, {"A", "K", "Q", "J"})
      [] a.type = "chouine" -> HoldsRanks(hand, a.suit, {"A", "10", "K", "Q", "J"})
      [] a.type = "quinte" ->
             Cardinality({i \in 1..Len(hand) : hand[i].rank \in {"A", "10"}}) >= 5
      [] OTHER -> FALSE

\* the points of an announce: off trump, in the trump suit
TablePoints(a, trump_suit) ==
    CASE a.type = "mariage" -> (IF a.suit = trump_suit THEN 40 ELSE 20)
      [] a.type = "tierce" -> (IF a.suit = trump_suit THEN 60 ELSE 30)
      [] a.type = "quarteron" -> (IF a.suit = trump_suit THEN 80 ELSE 40)
      [] a.type = "quinte" -> 50
      [] a.type = "chouine" -> 0

\* C15: a successful announce credits only the declaring side, with exactly
\* mariage 20 (40 in the trump suit), tierce 30 (60), quarteron 40 (80),
\* quinte 50 whatever suit is given and chouine 0; an announce is accepted
\* only if the pre-play hand holds K,Q (mariage), K,Q,J (tierce), A,K,Q,J
\* (quarteron), A,10,K,Q,J (chouine) of the announced suit, or at least five
\* aces and tens in total (quinte).
C15_AnnounceCredit ==
    \A by \in By :
        (LeaderTurn(game, by) \/ FollowerTurn(game, by)) =>
            \A a \in AllAnnounces \ {NoneAnnounce} :
                \A card \in FirstAndLast(compute_legal_moves(HandOf(game, by),
                                           game.current_lead, game.trump_suit,
                                           ~StockExhausted(game))) :
                    LET r == TurnCall(game, by, card, a, TRUE)
                    IN r.err = "ok" =>
                           /\ HoldsCombination(HandOf(game, by), a)
                           /\ AnnPointsOf(r.g, by)
                                  = AnnPointsOf(game, by) + TablePoints(a, game.trump_suit)
                           /\ AnnPointsOf(r.g, OtherSide(by))
                                  = AnnPointsOf(game, OtherSide(by))
                           /\ announce_key(a.type, a.suit) \in AnnouncedOf(r.g, by)

\* the opponent was credited 80 for a quarteron in the trump suit and the
\* player nothing
C15_Witness ==
    /\ game.last_announce = [by |-> "opponent", type |-> "quarteron", suit |-> game.trump_suit]
    /\ game.opponent_ann_points = 80
    /\ game.player_ann_points = 0
    /\ ~game.is_over

\* the announce the policy returns is none, or shown, held by the hand and
\* not declared by the opponent before
PolicyAnnounceValid(g) ==
    LET ann == ai_choose_best_announce(g, g.opponent_hand)
    IN ann.type # "none"
           => /\ ann.show
              /\ HoldsCombination(g.opponent_hand, ann)
              /\ announce_key(ann.type, ann.suit) \notin g.announced_opponent

\* C16: in every reachable state where it is the opponent's turn, the card
\* returned by ai_choose_lead_card is in the opponent's hand, the card
\* returned by ai_choose_follow_card is in the legal-move set for the current
\* lead, the announce returned by ai_choose_best_announce is valid for the
\* opponent's hand and not yet declared, and the leader_play / follower_play
\* call that submits these choices does not fail.
C16_PolicyObeysRules ==
    LET ann == ai_choose_best_announce(game, game.opponent_hand)
    IN /\ FollowerTurn(game, "opponent")
              => LET opp_card == ai_choose_follow_card(game, game.current_lead)
                 IN /\ opp_card \in Range(compute_legal_moves(game.opponent_hand,
                                              game.current_lead, game.trump_suit,
                                              ~StockExhausted(game)))
                    /\ PolicyAnnounceValid(game)
                    /\ follower_play(game, "opponent", opp_card,
                                     Announce(ann.type, ann.suit), ann.show).err = "ok"
       /\ LeaderTurn(game, "opponent")
              => /\ ai_choose_lead_card(game) # {}
                 /\ PolicyAnnounceValid(game)
                 /\ \A opp_lead \in ai_choose_lead_card(game), au_sept_flag \in BOOLEAN :
                        /\ opp_lead \in Range(game.opponent_hand)
                        /\ leader_play(game, "opponent", opp_lead, au_sept_flag,
                                       Announce(ann.type, ann.suit), ann.show).err = "ok"
       /\ call.stage \in {"auto_follow", "auto_lead"} => call.error = "ok"

\* with the stock exhausted the opponent has replied by the policy with a
\* card that is not the only card of its hand, has won the trick and has led
\* the next one
C16_Witness ==
    /\ call = ApiCall("api_lead", "idle", "auto_lead", "ok")
    /\ StockExhausted(game)
    /\ game.last_trick.reply.by = "opponent" /\ game.last_trick.winner = "opponent"
    /\ game.current_lead_by = "opponent"
    /\ Len(game.opponent_hand) >= 2
    /\ game.last_announce.by = "opponent"

\* a step that resolves a trick while the stock is exhausted
ResolvedAfterStock == TricksDone(game') > TricksDone(game) /\ StockExhausted(game)

C17_FollowsOrTrumps ==
    ResolvedAfterStock
        => game'.last_trick.reply.card.suit \in {game.current_lead.suit, game.trump_suit}

C17_ForcedDiscard ==
    ResolvedAfterStock
        => LET reply == game'.last_trick.reply
               hand == HandOf(game, reply.by)
           IN \/ reply.card.suit \in {game.current_lead.suit, game.trump_suit}
              \/ /\ ~has_suit(hand, game.current_lead.suit)
                 /\ ~has_suit(hand, game.trump_suit)
                 /\ game'.last_trick.winner = game.current_lead_by

Stock(g) == g.talon \o (IF g.turnup_in_stock THEN <<g.trump_card>> ELSE <<>>)

\* the hand of a side in a resolving step once its card of the trick is out
PlayedHand(by) ==
    IF by = game.current_lead_by THEN HandOf(game, by)
    ELSE remove_card(HandOf(game, by), game'.last_trick.reply.card)

\* in a step that resolves a trick the winner takes the first card of the
\* stock and the loser the second; other steps draw nothing
C18_DrawOrder ==
    LET winner == game'.last_trick.winner
        loser == OtherSide(winner)
        stock == Stock(game)
    IN IF TricksDone(game') > TricksDone(game)
       THEN /\ HandOf(game', winner) =
                   PlayedHand(winner) \o (IF Len(stock) >= 1 THEN <<stock[1]>> ELSE <<>>)
            /\ HandOf(game', loser) =
                   PlayedHand(loser) \o (IF Len(stock) >= 2 THEN <<stock[2]>> ELSE <<>>)
            /\ Stock(game') = SubSeq(stock, 3, Len(stock))
            /\ game'.talon = SubSeq(game.talon, 3, Len(game.talon))
       ELSE /\ game'.talon = game.talon
            /\ game'.turnup_in_stock = game.turnup_in_stock
            /\ Len(game'.player_hand) <= Len(game.player_hand)
            /\ Len(game'.opponent_hand) <= Len(game.opponent_hand)

\* the turnup leaves the stock once, in the trick in which the talon runs
\* out, for the hand of the loser of that trick
C18_TurnupOnce ==
    /\ ~game.turnup_in_stock => ~game'.turnup_in_stock
    /\ (game.turnup_in_stock /\ ~game'.turnup_in_stock)
           => LET loser == OtherSide(game'.last_trick.winner)
              IN /\ TricksDone(game') > TricksDone(game)
                 /\ game.talon # <<>> /\ game'.talon = <<>>
                 /\ HandOf(game', loser) = Append(PlayedHand(loser), game.trump_card)
                 /\ game.trump_card \notin Range(HandOf(game', OtherSide(loser)))

\* C18: after each trick resolved while the stock is not exhausted the trick
\* winner draws first and the loser second, each taking the head of the talon
\* if it is non-empty and otherwise the reserved turnup card; the turnup is
\* handed out exactly once in a game (turnup_in_stock goes from true to false
\* once and never back), to the loser of the trick during which the talon
\* runs out; no card is drawn after the stock is exhausted.
C18_Draws == [][C18_DrawOrder /\ C18_TurnupOnce]_vars

\* the eleventh trick has emptied the stock: the loser holds the turnup as
\* its last card, the winner the last card of the talon, and the seven that
\* was exchanged is the turnup that was drawn
C18_Witness ==
    /\ TricksDone(game) = 11 /\ game.current_lead = NoCard
    /\ StockExhausted(game)
    /\ game.exchange7_done
    /\ LET winner == game.last_trick.winner
           loser == OtherSide(winner)
       IN /\ Len(HandOf(game, winner)) = 5 /\ Len(HandOf(game, loser)) = 5
          /\ HandOf(game, loser)[5] = game.trump_card
          /\ HandOf(game, winner)[5] # game.trump_card

\* C19: a successful exchange7 changes only three things: the player's trump
\* seven is replaced in the player's hand by the previous turnup card, the
\* reserved turnup card becomes the trump seven, and exchange7_done becomes
\* true; the trump suit, the opponent's hand, the talon, turnup_in_stock, both
\* trick piles, the current lead, the leader, scores and announce sets are
\* unchanged; when only the opponent holds the trump seven the call fails.
C19_ExchangeFrame ==
    LET r == exchange7(game)
        seven == Card(game.trump_suit, "7")
    IN /\ r.err = "ok"
              => /\ r.g.trump_card = seven
                 /\ r.g.exchange7_done /\ ~game.exchange7_done
                 /\ Len(r.g.player_hand) = Len(game.player_hand)
                 /\ \A i \in 1..Len(game.player_hand) :
                        r.g.player_hand[i] =
                            IF game.player_hand[i] = seven THEN game.trump_card
                            ELSE game.player_hand[i]
                 /\ seven \in Range(game.player_hand)
                 /\ r.g = [game EXCEPT !.player_hand = r.g.player_hand,
                                       !.trump_card = r.g.trump_card,
                                       !.exchange7_done = TRUE]
                 /\ scores_so_far(r.g) = scores_so_far(game)
       /\ (seven \in Range(game.opponent_hand) /\ seven \notin Range(game.player_hand))
              => r.err # "ok" /\ r.g = game

\* the game dealt from shuffle p has come to g: the talon of g is what is
\* left of the talon dealt
DealtFrom(g, p) ==
    LET talon == new_game(Shuffled(p)).talon
    IN g.talon = SubSeq(talon, Len(talon) - Len(g.talon) + 1, Len(talon))

\* after a trick the player holds the turnup that was dealt in the place of
\* the seven, which is not the first card of the hand, and the seven is the
\* reserved turnup
C19_Witness ==
    /\ game.exchange7_done
    /\ game.turnup_in_stock
    /\ game.trump_card = Card(game.trump_suit, "7")
    /\ TricksDone(game) >= 1
    /\ \E p \in Shuffles, i \in 2..Len(game.player_hand) :
           /\ DealtFrom(game, p)
           /\ game.player_hand[i] = new_game(Shuffled(p)).trump_card

\* C20: in every reachable state current_lead and current_lead_by are either
\* both empty (between tricks) or both set (one unresolved lead card); when
\* they are set, current_lead_by is the side designated by the leader flag and
\* the lead card is in neither hand, not in the talon and not in any trick
\* pile.
C20_LeadInvariant ==
    /\ game.current_lead = NoCard <=> game.current_lead_by = NoBy
    /\ game.current_lead # NoCard
           => /\ game.current_lead \in Cards
              /\ game.current_lead_by \in By
              /\ game.current_lead_by = LeaderSide(game)
              /\ game.current_lead \notin Range(game.player_hand)
              /\ game.current_lead \notin Range(game.opponent_hand)
              /\ game.current_lead \notin Range(game.talon)
              /\ game.current_lead \notin Range(PileCards(game.player_tricks))
              /\ game.current_lead \notin Range(PileCards(game.opponent_tricks))

\* the opponent, winner of the fifteenth trick, has led its last card
C20_Witness ==
    /\ TricksDone(game) = 15
    /\ game.current_lead \in Cards
    /\ game.current_lead_by = "opponent" /\ game.leader = 1
    /\ game.opponent_hand = <<>> /\ Len(game.player_hand) = 1
    /\ ~game.is_over

(***************************************************************************)
(* C21: the card the opponent follows with.                                *)
(***************************************************************************)
\* the legal replies of the opponent to the lead, and those that win
OpponentLegal(g) ==
    compute_legal_moves(g.opponent_hand, g.current_lead, g.trump_suit, talon_not_empty(g))

OpponentWinning(g) ==
    {c \in Range(OpponentLegal(g)) :
        trick_winner(g.current_lead, c, g.trump_suit, talon_not_empty(g)) = 1}

\* c is a cheapest winner: no winner has fewer points, and none of the same
\* points is of a weaker rank
CheapestWinner(g, c) ==
    /\ c \in OpponentWinning(g)
    /\ \A d \in OpponentWinning(g) :
           /\ CARD_POINTS(c.rank) <= CARD_POINTS(d.rank)
           /\ CARD_POINTS(c.rank) = CARD_POINTS(d.rank)
                  => RANK_STRENGTH(c.rank) >= RANK_STRENGTH(d.rank)

\* c is a discard that gives away a brisque or a trump only when forced
CheapestDiscard(g, c) ==
    /\ c \in Range(OpponentLegal(g))
    /\ is_brisque(c) \/ c.suit = g.trump_suit
           => \A d \in Range(OpponentLegal(g)) : is_brisque(d) \/ d.suit = g.trump_suit

\* C21: whenever at least one legal card would win the trick, the card
\* returned by ai_choose_follow_card is a winning legal card with the lowest
\* card-point value among the winning legal cards and, among those of equal
\* point value, the one of the weakest rank; when no legal card wins, the
\* returned card is a legal card, and it is a brisque or a trump only if
\* every legal card is one.
C21_CheapestReply ==
    FollowerTurn(game, "opponent")
        => LET opp_card == ai_choose_follow_card(game, game.current_lead)
           IN IF OpponentWinning(game) # {}
              THEN CheapestWinner(game, opp_card)
              ELSE CheapestDiscard(game, opp_card)

(***************************************************************************)
(* C22: the announce the opponent declares.                                *)
(***************************************************************************)
\* the opponent is to act: the handlers call the policy in these states
OpponentTurn(g) == FollowerTurn(g, "opponent") \/ LeaderTurn(g, "opponent")

\* the announces other than chouine that the hand holds and the opponent has
\* not declared
UndeclaredAnnounces(g, hand) ==
    {a \in KeyAnnounces :
        /\ a.type # "chouine"
        /\ HoldsCombination(hand, a)
        /\ announce_key(a.type, a.suit) \notin g.announced_opponent}

\* C22: when it is the opponent's turn, ai_choose_best_announce on its hand
\* returns chouine if the hand holds a chouine in some suit; otherwise it
\* returns an announce that is valid for the hand, not yet in the opponent's
\* declared set and of the highest point value over all valid undeclared
\* announces (mariage, tierce, quarteron per suit, and quinte); it returns
\* "none" exactly when no valid undeclared announce exists.
C22_BestAnnounce ==
    OpponentTurn(game)
        => LET hand == game.opponent_hand
               ann == ai_choose_best_announce(game, hand)
               open == UndeclaredAnnounces(game, hand)
           IN IF \E s \in SuitSet : HoldsRanks(hand, s, {"A", "10", "K", "Q", "J"})
              THEN ann.type = "chouine" /\ HoldsCombination(hand, ann)
              ELSE /\ ann.type = "none" <=> open = {}
                   /\ ann.type # "none"
                          => /\ Announce(ann.type, ann.suit) \in open
                             /\ \A a \in open :
                                    announce_points(a.type, a.suit, game.trump_suit)
                                        <= announce_points(ann.type, ann.suit,
                                                           game.trump_suit)

\* the policy has declared a tierce for the opponent while the mariage of the
\* same suit, which the hand held too, was undeclared
C22_Witness ==
    /\ call.stage \in {"auto_follow", "auto_lead"} /\ call.error = "ok"
    /\ game.last_announce.by = "opponent" /\ game.last_announce.type = "tierce"
    /\ announce_key("tierce", game.last_announce.suit) \in game.announced_opponent
    /\ announce_key("mariage", game.last_announce.suit) \notin game.announced_opponent

(***************************************************************************)
(* C23: card conservation over seven zones.                                *)
(***************************************************************************)
\* the cards of the seven zones, one after the other: both hands, the talon,
\* the reserved turnup (while in stock), the lead of the trick in progress
\* and both trick piles
SevenZones(g) ==
    g.player_hand \o g.opponent_hand \o g.talon
        \o (IF g.turnup_in_stock THEN <<g.trump_card>> ELSE <<>>)
        \o (IF g.current_lead # NoCard THEN <<g.current_lead>> ELSE <<>>)
        \o PileCards(g.player_tricks) \o PileCards(g.opponent_tricks)

\* 32 places hold the 32 cards: each card is in exactly one place
C23_EachCardOnce ==
    /\ Len(SevenZones(game)) = Cardinality(Cards)
    /\ Range(SevenZones(game)) = Cards

\* C23: counting the lead of the trick in progress as a zone, in every
\* reachable state each of the 32 cards is in exactly one of player hand,
\* opponent hand, talon, reserved turnup (while in stock), current lead,
\* player trick pile and opponent trick pile; no operation, successful or
\* failed, duplicates or loses a card (the state a call leaves, failed calls
\* included, is a reachable state).
C23_SevenZonesHoldDeck == []C23_EachCardOnce

\* a lead is in progress, in the lead zone only, after tricks of both sides,
\* the exchange of the seven and the draw of the turnup
C23_Witness ==
    /\ game.current_lead # NoCard /\ ~game.is_over
    /\ Occurrences(SevenZones(game), game.current_lead) = 1
    /\ ~InHand(HandOf(game, game.current_lead_by), game.current_lead)
    /\ game.player_tricks # <<>> /\ game.opponent_tricks # <<>>
    /\ game.exchange7_done /\ ~game.turnup_in_stock

(***************************************************************************)
(* C24: the size of the talon.                                             *)
(***************************************************************************)
\* C24: in every reachable state the talon size is 0 or an odd number
\* between 1 and 21 (it starts at 21 and loses two cards per resolved trick,
\* the last talon card leaving together with the turnup); hence the talon
\* never holds exactly two cards, au_sept_required(game) is false, and
\* leader_play never fails with the au-sept-required error.
C24_TalonOddOrEmpty ==
    /\ Len(game.talon) \in {0} \cup {n \in 1..21 : n % 2 = 1}
    /\ Len(game.talon) = IF TricksDone(game) <= 10 THEN 21 - 2 * TricksDone(game) ELSE 0
    /\ Len(game.talon) # 2
    /\ ~au_sept_required(game)
    /\ \A by \in By, au_sept_flag \in BOOLEAN :
           \A card \in FirstAndLast(HandOf(game, by)) :
               leader_play(game, by, card, au_sept_flag, NoneAnnounce, FALSE).err
                   # ErrAuSept

\* the leader is to lead with one card left in the talon and the exchange
\* not done, and a lead without the au-sept flag is accepted
C24_Witness ==
    /\ Len(game.talon) = 1 /\ ~game.exchange7_done /\ game.turnup_in_stock
    /\ \E by \in By :
           /\ LeaderTurn(game, by)
           /\ leader_play(game, by, HandOf(game, by)[1], FALSE, NoneAnnounce, FALSE).err
                  = "ok"

(***************************************************************************)
(* C25: the turnup and the talon.                                          *)
(***************************************************************************)
\* C25: in every reachable state turnup_in_stock is true if and only if the
\* talon is non-empty; so the test "talon is empty" of the code coincides
\* with "stock is exhausted", and there is no state in which the talon is
\* empty while the turnup is still drawable.
C25_TurnupWithTalon ==
    /\ game.turnup_in_stock <=> game.talon # <<>>
    /\ ~talon_not_empty(game) <=> StockExhausted(game)
    /\ ~(game.talon = <<>> /\ game.turnup_in_stock)

\* the trick that drew the last talon card and the turnup has been resolved
\* and the next lead is in progress: the talon is empty and the turnup gone
C25_Witness ==
    /\ TricksDone(game) = 11
    /\ game.last_trick.talon_count = 0
    /\ game.talon = <<>> /\ ~game.turnup_in_stock
    /\ game.current_lead # NoCard
    /\ InHand(game.player_hand, game.trump_card) \/ InHand(game.opponent_hand, game.trump_card)

(***************************************************************************)
(* C26: the sizes of the hands.                                            *)
(***************************************************************************)
\* C26: hand-size parity holds in every reachable state, so
\* invariant_warning(game) is always None: between tricks both hands have
\* the same size, during a trick the side that led has exactly one card
\* fewer than the other; moreover no hand ever exceeds 5 cards and both
\* hands hold exactly 5 cards between tricks while the stock is not
\* exhausted.
C26_HandSizes ==
    LET np == Len(game.player_hand)
        no == Len(game.opponent_hand)
    IN /\ invariant_warning(game) = "None"
       /\ game.current_lead = NoCard => np = no
       /\ game.current_lead # NoCard
              => /\ game.current_lead_by \in By
                 /\ Len(HandOf(game, game.current_lead_by))
                        = Len(HandOf(game, OtherSide(game.current_lead_by))) - 1
       /\ np <= 5 /\ no <= 5
       /\ game.current_lead = NoCard /\ ~StockExhausted(game) => np = 5 /\ no = 5

\* with the stock exhausted the opponent has led from a hand of three: it
\* holds two cards and the player three
C26_Witness ==
    /\ StockExhausted(game) /\ ~game.is_over
    /\ game.current_lead # NoCard /\ game.current_lead_by = "opponent"
    /\ Len(game.opponent_hand) = 2 /\ Len(game.player_hand) = 3
    /\ invariant_warning(game) = "None"

(***************************************************************************)
(* C27: the points of a game played to the last card.                      *)
(***************************************************************************)
\* the card points of both trick piles
CardPointsTaken(g) ==
    compute_cards_points(g.player_tricks) + compute_cards_points(g.opponent_tricks)

\* C27: when a game ends by hand exhaustion, exactly 16 tricks of two cards
\* each have been completed, the card points of the two trick piles sum to
\* exactly 120, and the two final totals sum to 130 plus the announce points
\* of both sides; at every earlier state the two card-point totals sum to at
\* most 120.
C27_PointsOfTheDeck ==
    /\ game.is_over /\ HandsPlayedOut(game)
           => /\ TricksDone(game) = 16
              /\ \A by \in By : \A i \in 1..Len(TricksOf(game, by)) :
                     Len(TricksOf(game, by)[i]) = 2
              /\ CardPointsTaken(game) = 120
              /\ final_scores(game).player.total + final_scores(game).opponent.total
                     = 130 + game.player_ann_points + game.opponent_ann_points
    /\ CardPointsTaken(game) <= 120
    /\ scores_so_far(game).player.cards + scores_so_far(game).opponent.cards <= 120

\* a game played to the last card in which the opponent was credited an
\* announce and took the last trick
C27_Witness ==
    /\ game.is_over /\ HandsPlayedOut(game) /\ TricksDone(game) = 16
    /\ game.opponent_ann_points > 0
    /\ game.last_trick.winner = "opponent"
    /\ final_scores(game).player.total + final_scores(game).opponent.total > 130

(***************************************************************************)
(* Games in which accepted and refused calls are separate steps.  An       *)
(* accepted play submits the first or the last card the side may play; the *)
(* first one without an announce is the scripted call, any other accepted  *)
(* call and any refused call that changes the game is a free one.          *)
(***************************************************************************)
\* the cards a side may play: its hand to lead, its legal moves to follow
PlayInputs(g, by) ==
    IF g.current_lead = NoCard THEN HandOf(g, by)
    ELSE compute_legal_moves(HandOf(g, by), g.current_lead, g.trump_suit, talon_not_empty(g))

FreePlay(g, by, card, announce) ==
    \/ PlayInputs(g, by) = <<>>
    \/ ~card_eq(card, PlayInputs(g, by)[1])
    \/ announce.type # "none"

\* leader_play returns without raising
LeadOk ==
    \E au_sept_flag \in BOOLEAN :
        \E card \in FirstAndLast(PlayInputs(game, LeaderSide(game))),
           announce \in AnnounceInputs(game, LeaderSide(game)) :
            LET by == LeaderSide(game)
                r == leader_play(game, by, card, au_sept_flag, announce, TRUE)
                free == FreePlay(game, by, card, announce)
            IN /\ r.err = "ok"
               /\ free => nfree < MaxFree
               /\ game' = r.g
               /\ nfree' = IF free THEN nfree + 1 ELSE nfree
               /\ UNCHANGED call

\* follower_play returns without raising
FollowOk ==
    /\ game.current_lead_by \in By
    /\ \E card \in FirstAndLast(PlayInputs(game, OtherSide(game.current_lead_by))),
          announce \in AnnounceInputs(game, OtherSide(game.current_lead_by)) :
           LET by == OtherSide(game.current_lead_by)
               r == follower_play(game, by, card, announce, TRUE)
               free == FreePlay(game, by, card, announce)
           IN /\ r.err = "ok"
              /\ free => nfree < MaxFree
              /\ game' = r.g
              /\ nfree' = IF free THEN nfree + 1 ELSE nfree
              /\ UNCHANGED call

\* leader_play or follower_play raises
Refused ==
    \E by \in By, show \in BOOLEAN, leads \in BOOLEAN :
        \E card \in CardInputs(game, by), announce \in AnnounceInputs(game, by) :
            LET r == IF leads THEN leader_play(game, by, card, FALSE, announce, show)
                     ELSE follower_play(game, by, card, announce, show)
            IN /\ r.err # "ok"
               /\ r.g # game => nfree < MaxFree
               /\ game' = r.g
               /\ nfree' = IF r.g # game THEN nfree + 1 ELSE nfree
               /\ UNCHANGED call

NextLive == LeadOk \/ FollowOk \/ Refused \/ Exchange7

\* the side to act: the leader when no trick is open, the other side when
\* one is
SideToAct(g) ==
    IF g.current_lead = NoCard THEN LeaderSide(g) ELSE OtherSide(g.current_lead_by)

\* the play of the card by the side to act, without an announce
PlayOf(g, card) ==
    IF g.current_lead = NoCard
    THEN leader_play(g, SideToAct(g), card, FALSE, NoneAnnounce, FALSE)
    ELSE follower_play(g, SideToAct(g), card, NoneAnnounce, FALSE)

\* some card of the side to act is accepted: LeadOk or FollowOk can be taken
\* (the scripted call is never short of budget)
CanPlay(g) == \E card \in Range(HandOf(g, SideToAct(g))) : PlayOf(g, card).err = "ok"

\* the clients go on playing: weak fairness of the accepted plays, that is
\* WF_vars(LeadOk \/ FollowOk) with CanPlay(game) for
\* ENABLED <<LeadOk \/ FollowOk>>_vars
FairPlays == []<>~CanPlay(game) \/ []<><<LeadOk \/ FollowOk>>_vars

SpecLive == Init /\ [][NextLive]_vars /\ FairPlays

(***************************************************************************)
(* C28: the game cannot get stuck and terminates.                          *)
(***************************************************************************)
C28_CanPlay ==
    /\ ~game.is_over => /\ HandOf(game, SideToAct(game)) # <<>>
                        /\ CanPlay(game)
    /\ TricksDone(game) <= 16
    /\ TricksDone(game) = 16 => game.is_over

\* C28: in every reachable state that is not over, the side to act (the
\* leader when no trick is open, the other side when one is) holds at least
\* one card whose play succeeds, and under fairness on successful plays every
\* game reaches Over after at most 16 completed tricks.
C28_NeverStuckAndTerminates == []C28_CanPlay /\ <>game.is_over

\* with the stock exhausted the side to reply holds three cards or more, the
\* play of its first card is refused as illegal and another card is accepted
C28_Witness ==
    /\ ~game.is_over /\ game.current_lead # NoCard /\ StockExhausted(game)
    /\ LET hand == HandOf(game, SideToAct(game))
       IN /\ Len(hand) >= 3
          /\ PlayOf(game, hand[1]).err = ErrIllegalMove
          /\ \E card \in Range(hand) : PlayOf(game, card).err = "ok"

====
